---- MODULE Spec2Model ----
(***************************************************************************)
(* Model of package registry (qq1060656096/bizutil): a manager owning      *)
(* named groups of lazily opened resources, protected by one RWMutex.      *)
(* Every method body is one critical section of that mutex; Get has two    *)
(* (read-locked fast path, write-locked slow path) and its opener call is  *)
(* a step of its own, executed while the write lock is held.               *)
(***************************************************************************)
EXTENDS Integers, Sequences, FiniteSets, TLC

\* ---- universe of the model ------------------------------------------------
Threads    == {"t1", "t2"}
GroupNames == {"g1", "g2"}
ResNames   == {"a", "b"}
Cfgs       == {"c1", "c2"}
None       == "-"

\* cap on the number of opener invocations in one behaviour
MaxOpens == 2

\* The callers and the arguments they use: either two threads working on one
\* group, or one thread working on two groups.
Workloads ==
    { [threads |-> {"t1", "t2"}, groups |-> {"g1"}, names |-> {"a", "b"}],
      [threads |-> {"t1"}, groups |-> {"g1", "g2"}, names |-> {"a"}] }

VARIABLES
    workload,    \* the threads that call into the manager and the names they use
    groups,      \* manager.groups : group name -> (resource name -> connection)
    closerNil,   \* manager.closer == nil
    mu,          \* manager.mu : "free", or the thread holding the write lock
    th,          \* per thread: the Get call in progress (pc and arguments)
    last,        \* the call that returned last, with its arguments and results
    nOpen,       \* number of opener invocations so far (also the identity
                 \* of the resource the latest invocation allocates)
    openerLog,   \* per live record: Get-path opener invocations and failures
    closeCalls,  \* per resource identity: number of closer invocations on it
    mapBy        \* maputil.MapBy: the call in progress (arguments, loop, map)

vars == <<workload, groups, closerNil, mu, th, last, nOpen, openerLog, closeCalls>>

\* ---- maps -----------------------------------------------------------------
EmptyMap == [x \in {} |-> None]

MapPut(m, k, v) == [x \in (DOMAIN m) \cup {k} |-> IF x = k THEN v ELSE m[x]]

MapDelete(m, k) == [x \in (DOMAIN m) \ {k} |-> m[x]]

\* every order in which a range loop may visit the keys of a map
RangeOrders(S) ==
    {s \in [1..Cardinality(S) -> S] : \A x \in S : \E i \in DOMAIN s : s[i] = x}

\* ---- errors ---------------------------------------------------------------
\* An error is the set of errors it matches under errors.Is (itself and what
\* it wraps with %w) and the group/resource context formatted into it.
NoErr == [is |-> {}, group |-> None, name |-> None]

OpenerErrs ==
    { [is |-> {"open failed"}, group |-> None, name |-> None],
      [is |-> {"context canceled"}, group |-> None, name |-> None] }

CloserErr == [is |-> {"close failed"}, group |-> None, name |-> None]

NewErrGroupNotFound(groupName) ==
    [is |-> {"ErrGroupNotFound"}, group |-> groupName, name |-> None]

NewErrResourceNotFound(groupName, resourceName) ==
    [is |-> {"ErrResourceNotFound"}, group |-> groupName, name |-> resourceName]

\* a close failure that wraps the sentinel and formats the closer's error out
\* of the chain
NewErrCloseResourceFailedNoInner(groupName, resourceName, err) ==
    [is |-> {"ErrCloseResourceFailed"}, group |-> groupName, name |-> resourceName]

NewErrCloseResourceFailed(groupName, resourceName, err) ==
    [is |-> {"ErrCloseResourceFailed"} \cup err.is,
     group |-> groupName, name |-> resourceName]

\* a Ping failure that is the opener's error itself, without the sentinel
NewErrPingResourceFailedBare(groupName, resourceName, err) == err

\* a Ping failure that wraps the sentinel and the opener's error, as
\* NewErrCloseResourceFailed wraps the closer's
NewErrPingResourceFailedWrapsCause(groupName, resourceName, err) ==
    [is |-> {"ErrPingResourceFailed"} \cup err.is,
     group |-> groupName, name |-> resourceName]

\* wraps the sentinel only: the opener's error is formatted out of the chain
NewErrPingResourceFailed(groupName, resourceName, err) ==
    [is |-> {"ErrPingResourceFailed"}, group |-> groupName, name |-> resourceName]

\* ---- resources and connections ---------------------------------------------
\* the zero value of T (a nil *testResource)
ZeroVal == [id |-> 0, cfg |-> None]

\* a resource allocated by the opener: a fresh object built from cfg
NewResource(k, cfg) == [id |-> k, cfg |-> cfg]

\* &connection{cfg: cfg}
NewConnection(cfg) == [cfg |-> cfg, val |-> ZeroVal, ready |-> FALSE]

ResourceIds == 0..MaxOpens

\* ---- bookkeeping of the callbacks -------------------------------------------
LiveRecords(gs) == {p \in GroupNames \X ResNames :
                        p[1] \in DOMAIN gs /\ p[2] \in DOMAIN gs[p[1]]}

ZeroLog == [calls |-> 0, fails |-> 0]

\* the log follows the records: a removed record loses its entry, a newly
\* registered one starts at zero
FollowRecords(log, gs) ==
    [p \in LiveRecords(gs) |-> IF p \in DOMAIN log THEN log[p] ELSE ZeroLog]

CountIn(seq, v) == Cardinality({i \in DOMAIN seq : seq[i] = v})

\* closer invoked once on every element of vals
CloserInvoked(cc, vals) == [k \in DOMAIN cc |-> cc[k] + CountIn(vals, k)]

\* ---- maputil ------------------------------------------------------------
\* the elements of the lists, and the keys and values extracted from them
Elems == {"x", "y", "z"}
Keys  == {"k1", "k2"}
Vals  == {"v1", "v2"}

\* longest list given to MapBy
MaxLen == 3

Lists == UNION {[1..n -> Elems] : n \in 0..MaxLen}

\* a map value: nil, or a made map with its entries
NilMap == [isNil |-> TRUE, kv |-> EmptyMap]

MakeMap == [isNil |-> FALSE, kv |-> EmptyMap]

\* no call of MapBy
NoMapBy == [pc |-> "none", list |-> <<>>, key |-> <<>>, value |-> <<>>,
            i |-> 0, m |-> NilMap, ret |-> NilMap]

\* ---- threads ----------------------------------------------------------------
Idle == [pc |-> "idle", h |-> None, name |-> None]

NoRet == [op |-> None, h |-> None, name |-> None, cfg |-> None,
          err |-> NoErr, flag |-> FALSE, val |-> ZeroVal, list |-> <<>>,
          names |-> <<>>]

Init ==
    /\ workload \in Workloads
    /\ groups = EmptyMap
    /\ closerNil \in BOOLEAN
    /\ mu = "free"
    /\ th = [t \in Threads |-> Idle]
    /\ last = NoRet
    /\ nOpen = 0
    /\ openerLog = FollowRecords(EmptyMap, EmptyMap)
    /\ closeCalls = [k \in ResourceIds |-> 0]
    /\ mapBy = NoMapBy

\* a thread not inside a call may start one when the write lock is free
CanRun(t) == th[t].pc = "idle" /\ mu = "free"

Returned(op, h, name, cfg) ==
    [NoRet EXCEPT !.op = op, !.h = h, !.name = name, !.cfg = cfg]

\* a Must variant that returns the zero result instead of panicking
MustIgnoresError(ret) ==
    [panicked |-> FALSE, panic |-> NoErr, val |-> ret.val, h |-> ret.h]

\* The Must variants (MustGroup, MustGet) call the plain method and panic with
\* its error; ret is what the plain method returned.
Must(ret) == [panicked |-> ret.err # NoErr, panic |-> ret.err, val |-> ret.val, h |-> ret.h]

\* MustConfig: Config, with its error turned into a panic; ret is what Config
\* returned
MustConfig(ret) == [panicked |-> ret.err # NoErr, panic |-> ret.err, cfg |-> ret.cfg]

\* ---- manager ----------------------------------------------------------------
\* AddGroup that installs an empty group also when the name exists
AddGroupResets(t, name) ==
    /\ CanRun(t)
    /\ LET ok == name \in DOMAIN groups IN
       /\ groups' = MapPut(groups, name, EmptyMap)
       /\ last' = [Returned("AddGroup", None, name, None) EXCEPT !.flag = ok]
    /\ openerLog' = FollowRecords(openerLog, groups')
    /\ UNCHANGED <<workload, closerNil, mu, th, nOpen, closeCalls>>

\* manager.AddGroup: false when the group is created, true when it existed
AddGroup(t, name) ==
    /\ CanRun(t)
    /\ LET ok == name \in DOMAIN groups IN
       /\ groups' = IF ~ok THEN MapPut(groups, name, EmptyMap) ELSE groups
       /\ last' = [Returned("AddGroup", None, name, None) EXCEPT !.flag = ok]
    /\ openerLog' = FollowRecords(openerLog, groups')
    /\ UNCHANGED <<workload, closerNil, mu, th, nOpen, closeCalls>>

\* Group that creates the group it does not find
ManagerGroupCreates(t, name) ==
    /\ CanRun(t)
    /\ groups' = IF name \notin DOMAIN groups THEN MapPut(groups, name, EmptyMap)
                 ELSE groups
    /\ last' = Returned("Group", name, name, None)
    /\ openerLog' = FollowRecords(openerLog, groups')
    /\ UNCHANGED <<workload, closerNil, mu, th, nOpen, closeCalls>>

\* manager.Group; the handle returned is the group's name
ManagerGroup(t, name) ==
    /\ CanRun(t)
    /\ IF name \notin DOMAIN groups
       THEN last' = [Returned("Group", None, name, None) EXCEPT
                        !.err = NewErrGroupNotFound(name)]
       ELSE last' = Returned("Group", name, name, None)
    /\ UNCHANGED <<workload, groups, closerNil, mu, th, nOpen, openerLog, closeCalls>>

\* manager.ListGroupNames: the names in map iteration order
ListGroupNames(t) ==
    /\ CanRun(t)
    /\ \E order \in RangeOrders(DOMAIN groups) :
           last' = [Returned("ListGroupNames", None, None, None) EXCEPT
                       !.names = order]
    /\ UNCHANGED <<workload, groups, closerNil, mu, th, nOpen, openerLog, closeCalls>>

\* a close pass that returns at the first closer failure
RECURSIVE ClosePassStopsAtFailure(_, _, _, _, _)
ClosePassStopsAtFailure(nilCloser, groupName, groupMap, order, failing) ==
    IF order = <<>> THEN [errs |-> <<>>, closed |-> <<>>]
    ELSE LET name == Head(order)
             conn == groupMap[name]
             rest == ClosePassStopsAtFailure(nilCloser, groupName, groupMap,
                                             Tail(order), failing)
         IN  IF ~conn.ready THEN rest
             ELSE IF nilCloser THEN rest
             ELSE IF <<groupName, name>> \in failing
             THEN [errs |-> <<NewErrCloseResourceFailed(groupName, name, CloserErr)>>,
                   closed |-> <<conn.val.id>>]
             ELSE [errs |-> rest.errs, closed |-> <<conn.val.id>> \o rest.closed]

\* a close pass that reports a failure for every ready resource when there is
\* no closer
RECURSIVE ClosePassNilCloserReports(_, _, _, _, _)
ClosePassNilCloserReports(nilCloser, groupName, groupMap, order, failing) ==
    IF order = <<>> THEN [errs |-> <<>>, closed |-> <<>>]
    ELSE LET name == Head(order)
             conn == groupMap[name]
             rest == ClosePassNilCloserReports(nilCloser, groupName, groupMap,
                                               Tail(order), failing)
         IN  IF ~conn.ready THEN rest
             ELSE IF nilCloser
             THEN [errs |-> <<NewErrCloseResourceFailed(groupName, name, CloserErr)>>
                            \o rest.errs,
                   closed |-> rest.closed]
             ELSE [errs |-> (IF <<groupName, name>> \in failing
                             THEN <<NewErrCloseResourceFailed(groupName, name, CloserErr)>>
                             ELSE <<>>) \o rest.errs,
                   closed |-> <<conn.val.id>> \o rest.closed]

\* The loop body shared by manager.Close and group.Close, run over the
\* resources of one group in the given order; failing is the set of resources
\* on which the closer returns an error.  Yields the appended errors and the
\* values handed to the closer.
RECURSIVE ClosePass(_, _, _, _, _)
ClosePass(nilCloser, groupName, groupMap, order, failing) ==
    IF order = <<>> THEN [errs |-> <<>>, closed |-> <<>>]
    ELSE LET name == Head(order)
             conn == groupMap[name]
             rest == ClosePass(nilCloser, groupName, groupMap, Tail(order), failing)
         IN  IF ~conn.ready THEN rest
             ELSE IF nilCloser THEN rest
             ELSE [errs |-> (IF <<groupName, name>> \in failing
                             THEN <<NewErrCloseResourceFailed(groupName, name, CloserErr)>>
                             ELSE <<>>) \o rest.errs,
                   closed |-> <<conn.val.id>> \o rest.closed]

\* manager.Close whose loop does not skip the resources that are not ready
RECURSIVE CloseAllUnready(_, _, _, _, _)
CloseAllUnready(nilCloser, gs, outer, inner, failing) ==
    IF outer = <<>> THEN [errs |-> <<>>, closed |-> <<>>]
    ELSE LET groupName == Head(outer)
             rest == CloseAllUnready(nilCloser, gs, Tail(outer), inner, failing)
         IN  [errs |-> <<>>,
              closed |-> (IF nilCloser THEN <<>>
                          ELSE [i \in DOMAIN inner[groupName] |->
                                   gs[groupName][inner[groupName][i]].val.id])
                         \o rest.closed]

\* the outer loop of manager.Close over the groups in the given order;
\* inner[g] is the order in which the resources of g are visited
RECURSIVE CloseAll(_, _, _, _, _)
CloseAll(nilCloser, gs, outer, inner, failing) ==
    IF outer = <<>> THEN [errs |-> <<>>, closed |-> <<>>]
    ELSE LET groupName == Head(outer)
             one  == ClosePass(nilCloser, groupName, gs[groupName], inner[groupName], failing)
             rest == CloseAll(nilCloser, gs, Tail(outer), inner, failing)
         IN  [errs |-> one.errs \o rest.errs, closed |-> one.closed \o rest.closed]

\* all ways to pick one visiting order per group
InnerOrders(gs) ==
    {f \in [DOMAIN gs -> UNION {RangeOrders(DOMAIN gs[g]) : g \in DOMAIN gs}] :
        \A g \in DOMAIN gs : f[g] \in RangeOrders(DOMAIN gs[g])}

\* the resources on which a close pass over the groups gs invokes the closer
CloserTargets(nilCloser, gs) ==
    {p \in LiveRecords(gs) : gs[p[1]][p[2]].ready /\ ~nilCloser}

\* manager.Close that keeps the groups when a closer failed
ManagerCloseKeepsOnError(t, outer, inner, failing) ==
    /\ CanRun(t)
    /\ LET pass == CloseAll(closerNil, groups, outer, inner, failing) IN
       /\ closeCalls' = CloserInvoked(closeCalls, pass.closed)
       /\ last' = [Returned("ManagerClose", None, None, None) EXCEPT
                      !.list = pass.errs]
       /\ groups' = IF pass.errs = <<>> THEN EmptyMap ELSE groups
    /\ openerLog' = FollowRecords(openerLog, groups')
    /\ UNCHANGED <<workload, closerNil, mu, th, nOpen>>

\* manager.Close that clears the registry without closing anything
ManagerCloseDropsOnly(t, outer, inner, failing) ==
    /\ CanRun(t)
    /\ last' = Returned("ManagerClose", None, None, None)
    /\ groups' = EmptyMap
    /\ openerLog' = FollowRecords(openerLog, groups')
    /\ UNCHANGED <<workload, closerNil, mu, th, nOpen, closeCalls>>

\* manager.Close; outer and inner are the orders in which the range loops
\* visit the groups and the resources, failing the resources whose closer fails
ManagerClose(t, outer, inner, failing) ==
    /\ CanRun(t)
    /\ LET pass == CloseAll(closerNil, groups, outer, inner, failing) IN
       /\ closeCalls' = CloserInvoked(closeCalls, pass.closed)
       /\ last' = [Returned("ManagerClose", None, None, None) EXCEPT
                      !.list = pass.errs]
    /\ groups' = EmptyMap
    /\ openerLog' = FollowRecords(openerLog, groups')
    /\ UNCHANGED <<workload, closerNil, mu, th, nOpen>>

\* ---- group ------------------------------------------------------------------
\* the result of Get
GetReturned(h, name, val, err) ==
    [Returned("Get", h, name, None) EXCEPT !.val = val, !.err = err]

\* Get whose fast path hands out the zero value instead of the cached one
GetFastZero(t, h, name) ==
    /\ CanRun(t)
    /\ IF h \notin DOMAIN groups
       THEN /\ last' = GetReturned(h, name, ZeroVal, NewErrGroupNotFound(h))
            /\ UNCHANGED th
       ELSE IF name \notin DOMAIN groups[h]
       THEN /\ last' = GetReturned(h, name, ZeroVal, NewErrResourceNotFound(h, name))
            /\ UNCHANGED th
       ELSE IF groups[h][name].ready
       THEN /\ last' = GetReturned(h, name, ZeroVal, NoErr)
            /\ UNCHANGED th
       ELSE /\ th' = [th EXCEPT ![t] = [pc |-> "Get.Lock", h |-> h, name |-> name]]
            /\ UNCHANGED last
    /\ UNCHANGED <<workload, groups, closerNil, mu, nOpen, openerLog, closeCalls>>

\* Get that reports a missing group as a missing resource
GetAbsentGroupAsResource(t, h, name) ==
    /\ CanRun(t)
    /\ IF h \notin DOMAIN groups \/ name \notin DOMAIN groups[h]
       THEN /\ last' = GetReturned(h, name, ZeroVal, NewErrResourceNotFound(h, name))
            /\ UNCHANGED th
       ELSE IF groups[h][name].ready
       THEN /\ last' = GetReturned(h, name, groups[h][name].val, NoErr)
            /\ UNCHANGED th
       ELSE /\ th' = [th EXCEPT ![t] = [pc |-> "Get.Lock", h |-> h, name |-> name]]
            /\ UNCHANGED last
    /\ UNCHANGED <<workload, groups, closerNil, mu, nOpen, openerLog, closeCalls>>

\* group.Get, fast path under the read lock
Get(t, h, name) ==
    /\ CanRun(t)
    /\ IF h \notin DOMAIN groups
       THEN /\ last' = GetReturned(h, name, ZeroVal, NewErrGroupNotFound(h))
            /\ UNCHANGED th
       ELSE IF name \notin DOMAIN groups[h]
       THEN /\ last' = GetReturned(h, name, ZeroVal, NewErrResourceNotFound(h, name))
            /\ UNCHANGED th
       ELSE IF groups[h][name].ready
       THEN /\ last' = GetReturned(h, name, groups[h][name].val, NoErr)
            /\ UNCHANGED th
       ELSE /\ th' = [th EXCEPT ![t] = [pc |-> "Get.Lock", h |-> h, name |-> name]]
            /\ UNCHANGED last
    /\ UNCHANGED <<workload, groups, closerNil, mu, nOpen, openerLog, closeCalls>>

\* GetSlow without the second look at ready under the write lock
GetSlowNoRecheck(t) ==
    /\ th[t].pc = "Get.Lock"
    /\ mu = "free"
    /\ LET h == th[t].h
           name == th[t].name
       IN  IF h \notin DOMAIN groups
           THEN /\ last' = GetReturned(h, name, ZeroVal, NewErrGroupNotFound(h))
                /\ th' = [th EXCEPT ![t] = Idle]
                /\ UNCHANGED <<mu, nOpen, openerLog>>
           ELSE IF name \notin DOMAIN groups[h]
           THEN /\ last' = GetReturned(h, name, ZeroVal, NewErrResourceNotFound(h, name))
                /\ th' = [th EXCEPT ![t] = Idle]
                /\ UNCHANGED <<mu, nOpen, openerLog>>
           ELSE /\ nOpen < MaxOpens
                /\ nOpen' = nOpen + 1
                /\ openerLog' = [openerLog EXCEPT ![<<h, name>>].calls = @ + 1]
                /\ mu' = t
                /\ th' = [th EXCEPT ![t].pc = "Get.Opener"]
                /\ UNCHANGED last
    /\ UNCHANGED <<workload, groups, closerNil, closeCalls>>

\* GetSlow that invokes the opener without holding the write lock
GetSlowUnlocked(t) ==
    /\ th[t].pc = "Get.Lock"
    /\ mu = "free"
    /\ LET h == th[t].h
           name == th[t].name
       IN  IF h \notin DOMAIN groups
           THEN /\ last' = GetReturned(h, name, ZeroVal, NewErrGroupNotFound(h))
                /\ th' = [th EXCEPT ![t] = Idle]
                /\ UNCHANGED <<nOpen, openerLog>>
           ELSE IF name \notin DOMAIN groups[h]
           THEN /\ last' = GetReturned(h, name, ZeroVal, NewErrResourceNotFound(h, name))
                /\ th' = [th EXCEPT ![t] = Idle]
                /\ UNCHANGED <<nOpen, openerLog>>
           ELSE IF groups[h][name].ready
           THEN /\ last' = GetReturned(h, name, groups[h][name].val, NoErr)
                /\ th' = [th EXCEPT ![t] = Idle]
                /\ UNCHANGED <<nOpen, openerLog>>
           ELSE /\ nOpen < MaxOpens
                /\ nOpen' = nOpen + 1
                /\ openerLog' = [openerLog EXCEPT ![<<h, name>>].calls = @ + 1]
                /\ th' = [th EXCEPT ![t].pc = "Get.Opener"]
                /\ UNCHANGED last
    /\ UNCHANGED <<workload, groups, closerNil, mu, closeCalls>>

\* GetSlow that puts a record that has disappeared back and opens it
GetSlowRecreates(t) ==
    /\ th[t].pc = "Get.Lock"
    /\ mu = "free"
    /\ LET h == th[t].h
           name == th[t].name
           groupMap == IF h \in DOMAIN groups THEN groups[h] ELSE EmptyMap
       IN  IF name \in DOMAIN groupMap /\ groupMap[name].ready
           THEN /\ last' = GetReturned(h, name, groups[h][name].val, NoErr)
                /\ th' = [th EXCEPT ![t] = Idle]
                /\ UNCHANGED <<mu, nOpen, openerLog, groups>>
           ELSE /\ nOpen < MaxOpens
                /\ nOpen' = nOpen + 1
                /\ groups' = IF name \in DOMAIN groupMap THEN groups
                             ELSE MapPut(groups, h, MapPut(groupMap, name, NewConnection(None)))
                /\ openerLog' = [FollowRecords(openerLog, groups') EXCEPT
                                    ![<<h, name>>].calls = @ + 1]
                /\ mu' = t
                /\ th' = [th EXCEPT ![t].pc = "Get.Opener"]
                /\ UNCHANGED last
    /\ UNCHANGED <<workload, closerNil, closeCalls>>

\* group.Get, slow path: take the write lock, check again, invoke the opener
GetSlow(t) ==
    /\ th[t].pc = "Get.Lock"
    /\ mu = "free"
    /\ LET h == th[t].h
           name == th[t].name
       IN  IF h \notin DOMAIN groups
           THEN /\ last' = GetReturned(h, name, ZeroVal, NewErrGroupNotFound(h))
                /\ th' = [th EXCEPT ![t] = Idle]
                /\ UNCHANGED <<mu, nOpen, openerLog>>
           ELSE IF name \notin DOMAIN groups[h]
           THEN /\ last' = GetReturned(h, name, ZeroVal, NewErrResourceNotFound(h, name))
                /\ th' = [th EXCEPT ![t] = Idle]
                /\ UNCHANGED <<mu, nOpen, openerLog>>
           ELSE IF groups[h][name].ready
           THEN /\ last' = GetReturned(h, name, groups[h][name].val, NoErr)
                /\ th' = [th EXCEPT ![t] = Idle]
                /\ UNCHANGED <<mu, nOpen, openerLog>>
           ELSE /\ nOpen < MaxOpens
                /\ nOpen' = nOpen + 1
                /\ openerLog' = [openerLog EXCEPT ![<<h, name>>].calls = @ + 1]
                /\ mu' = t
                /\ th' = [th EXCEPT ![t].pc = "Get.Opener"]
                /\ UNCHANGED last
    /\ UNCHANGED <<workload, groups, closerNil, closeCalls>>

\* group.Get: the opener succeeds; the value is stored and the lock released
GetOpened(t) ==
    /\ th[t].pc = "Get.Opener"
    /\ mu = t
    /\ LET h == th[t].h
           name == th[t].name
           conn == groups[h][name]
           val == NewResource(nOpen, conn.cfg)
       IN  /\ groups' = [groups EXCEPT ![h][name] = [conn EXCEPT !.val = val, !.ready = TRUE]]
           /\ last' = GetReturned(h, name, val, NoErr)
    /\ th' = [th EXCEPT ![t] = Idle]
    /\ mu' = "free"
    /\ UNCHANGED <<workload, closerNil, nOpen, openerLog, closeCalls>>

\* GetOpenFailed that wraps the opener's error with the resource's context
GetOpenFailedWrapped(t, err) ==
    /\ th[t].pc = "Get.Opener"
    /\ mu = t
    /\ LET h == th[t].h
           name == th[t].name
       IN  /\ last' = GetReturned(h, name, ZeroVal,
                                  [is |-> {"open resource failed"} \cup err.is,
                                   group |-> h, name |-> name])
           /\ openerLog' = [openerLog EXCEPT ![<<h, name>>].fails = @ + 1]
    /\ th' = [th EXCEPT ![t] = Idle]
    /\ mu' = "free"
    /\ UNCHANGED <<workload, groups, closerNil, nOpen, closeCalls>>

\* GetOpenFailed that marks the record ready although the opener failed
GetOpenFailedMarksReady(t, err) ==
    /\ th[t].pc = "Get.Opener"
    /\ mu = t
    /\ LET h == th[t].h
           name == th[t].name
       IN  /\ last' = GetReturned(h, name, ZeroVal, err)
           /\ groups' = [groups EXCEPT ![h][name].ready = TRUE]
           /\ openerLog' = [openerLog EXCEPT ![<<h, name>>].fails = @ + 1]
    /\ th' = [th EXCEPT ![t] = Idle]
    /\ mu' = "free"
    /\ UNCHANGED <<workload, closerNil, nOpen, closeCalls>>

\* GetOpenFailed that returns without releasing the write lock
GetOpenFailedKeepsLock(t, err) ==
    /\ th[t].pc = "Get.Opener"
    /\ mu = t
    /\ LET h == th[t].h
           name == th[t].name
       IN  /\ last' = GetReturned(h, name, ZeroVal, err)
           /\ openerLog' = [openerLog EXCEPT ![<<h, name>>].fails = @ + 1]
    /\ th' = [th EXCEPT ![t] = Idle]
    /\ UNCHANGED <<workload, groups, closerNil, mu, nOpen, closeCalls>>

\* GetOpenFailed that unregisters the record whose opening failed
GetOpenFailedUnregisters(t, err) ==
    /\ th[t].pc = "Get.Opener"
    /\ mu = t
    /\ LET h == th[t].h
           name == th[t].name
       IN  /\ last' = GetReturned(h, name, ZeroVal, err)
           /\ groups' = [groups EXCEPT ![h] = MapDelete(@, name)]
    /\ openerLog' = FollowRecords(openerLog, groups')
    /\ th' = [th EXCEPT ![t] = Idle]
    /\ mu' = "free"
    /\ UNCHANGED <<workload, closerNil, nOpen, closeCalls>>

\* group.Get: the opener fails; its error is returned and the lock released
GetOpenFailed(t, err) ==
    /\ th[t].pc = "Get.Opener"
    /\ mu = t
    /\ LET h == th[t].h
           name == th[t].name
       IN  /\ last' = GetReturned(h, name, ZeroVal, err)
           /\ openerLog' = [openerLog EXCEPT ![<<h, name>>].fails = @ + 1]
    /\ th' = [th EXCEPT ![t] = Idle]
    /\ mu' = "free"
    /\ UNCHANGED <<workload, groups, closerNil, nOpen, closeCalls>>

\* Register that stores the new configuration even when the name exists
RegisterOverwrite(t, h, name, cfg) ==
    /\ CanRun(t)
    /\ LET groupMap == IF h \in DOMAIN groups THEN groups[h] ELSE EmptyMap
           exists == name \in DOMAIN groupMap
       IN  /\ groups' = MapPut(groups, h, MapPut(groupMap, name, NewConnection(cfg)))
           /\ last' = [Returned("Register", h, name, cfg) EXCEPT !.flag = ~exists]
    /\ openerLog' = FollowRecords(openerLog, groups')
    /\ UNCHANGED <<workload, closerNil, mu, th, nOpen, closeCalls>>

\* Register that opens the resource right away
RegisterEager(t, h, name, cfg) ==
    /\ CanRun(t)
    /\ nOpen < MaxOpens
    /\ LET groupMap == IF h \in DOMAIN groups THEN groups[h] ELSE EmptyMap
           exists == name \in DOMAIN groupMap
       IN  /\ groups' = IF exists THEN groups
                        ELSE MapPut(groups, h, MapPut(groupMap, name,
                                 [cfg |-> cfg, val |-> NewResource(nOpen + 1, cfg),
                                  ready |-> TRUE]))
           /\ nOpen' = IF exists THEN nOpen ELSE nOpen + 1
           /\ last' = [Returned("Register", h, name, cfg) EXCEPT !.flag = ~exists]
    /\ openerLog' = FollowRecords(openerLog, groups')
    /\ UNCHANGED <<workload, closerNil, mu, th, closeCalls>>

\* Register that answers isNew = true to every caller
RegisterAlwaysNew(t, h, name, cfg) ==
    /\ CanRun(t)
    /\ LET groupMap == IF h \in DOMAIN groups THEN groups[h] ELSE EmptyMap
           exists == name \in DOMAIN groupMap
       IN  /\ groups' = IF exists THEN groups
                        ELSE MapPut(groups, h, MapPut(groupMap, name, NewConnection(cfg)))
           /\ last' = [Returned("Register", h, name, cfg) EXCEPT !.flag = TRUE]
    /\ openerLog' = FollowRecords(openerLog, groups')
    /\ UNCHANGED <<workload, closerNil, mu, th, nOpen, closeCalls>>

\* Register that fails with GroupNotFound when the handle's group is gone
RegisterGoneGroupFails(t, h, name, cfg) ==
    /\ CanRun(t)
    /\ IF h \notin DOMAIN groups
       THEN /\ groups' = groups
            /\ last' = [Returned("Register", h, name, cfg) EXCEPT
                           !.err = NewErrGroupNotFound(h)]
       ELSE LET exists == name \in DOMAIN groups[h] IN
            /\ groups' = IF exists THEN groups
                         ELSE [groups EXCEPT ![h] = MapPut(@, name, NewConnection(cfg))]
            /\ last' = [Returned("Register", h, name, cfg) EXCEPT !.flag = ~exists]
    /\ openerLog' = FollowRecords(openerLog, groups')
    /\ UNCHANGED <<workload, closerNil, mu, th, nOpen, closeCalls>>

\* group.Register
Register(t, h, name, cfg) ==
    /\ CanRun(t)
    /\ LET groupMap == IF h \in DOMAIN groups THEN groups[h] ELSE EmptyMap
           exists == name \in DOMAIN groupMap
       IN  /\ groups' = IF exists THEN groups
                        ELSE MapPut(groups, h, MapPut(groupMap, name, NewConnection(cfg)))
           /\ last' = [Returned("Register", h, name, cfg) EXCEPT !.flag = ~exists]
    /\ openerLog' = FollowRecords(openerLog, groups')
    /\ UNCHANGED <<workload, closerNil, mu, th, nOpen, closeCalls>>

\* Unregister that deletes the record without closing the resource
UnregisterNoClose(t, h, name, closerErr) ==
    /\ CanRun(t)
    /\ IF h \notin DOMAIN groups
       THEN /\ last' = [Returned("Unregister", h, name, None) EXCEPT
                           !.err = NewErrGroupNotFound(h)]
            /\ UNCHANGED groups
       ELSE IF name \notin DOMAIN groups[h]
       THEN /\ last' = [Returned("Unregister", h, name, None) EXCEPT
                           !.err = NewErrResourceNotFound(h, name)]
            /\ UNCHANGED groups
       ELSE /\ groups' = [groups EXCEPT ![h] = MapDelete(@, name)]
            /\ last' = Returned("Unregister", h, name, None)
    /\ openerLog' = FollowRecords(openerLog, groups')
    /\ UNCHANGED <<workload, closerNil, mu, th, nOpen, closeCalls>>

\* Unregister that closes every ready resource of the group when the name
\* is not registered
UnregisterMissingSweeps(t, h, name, closerErr) ==
    /\ CanRun(t)
    /\ IF h \notin DOMAIN groups
       THEN /\ last' = [Returned("Unregister", h, name, None) EXCEPT
                           !.err = NewErrGroupNotFound(h)]
            /\ UNCHANGED <<groups, closeCalls>>
       ELSE IF name \notin DOMAIN groups[h]
       THEN /\ last' = [Returned("Unregister", h, name, None) EXCEPT
                           !.err = NewErrResourceNotFound(h, name)]
            /\ closeCalls' = [k \in DOMAIN closeCalls |->
                                 IF \E n \in DOMAIN groups[h] :
                                        ~closerNil /\ groups[h][n].ready /\ groups[h][n].val.id = k
                                 THEN closeCalls[k] + 1 ELSE closeCalls[k]]
            /\ UNCHANGED groups
       ELSE LET conn == groups[h][name] IN
            /\ closeCalls' = IF conn.ready /\ ~closerNil
                             THEN CloserInvoked(closeCalls, <<conn.val.id>>)
                             ELSE closeCalls
            /\ groups' = [groups EXCEPT ![h] = MapDelete(@, name)]
            /\ last' = Returned("Unregister", h, name, None)
    /\ openerLog' = FollowRecords(openerLog, groups')
    /\ UNCHANGED <<workload, closerNil, mu, th, nOpen>>

\* what the closer may return when Unregister invokes it on the record
CloserOutcomes(h, name) ==
    IF h \in DOMAIN groups /\ name \in DOMAIN groups[h]
          /\ groups[h][name].ready /\ ~closerNil
    THEN {NoErr, CloserErr}
    ELSE {NoErr}

\* Unregister that keeps the record and returns the failure when the closer
\* fails
UnregisterReportsCloserError(t, h, name, closerErr) ==
    /\ CanRun(t)
    /\ IF h \notin DOMAIN groups
       THEN /\ last' = [Returned("Unregister", h, name, None) EXCEPT
                           !.err = NewErrGroupNotFound(h)]
            /\ UNCHANGED <<groups, closeCalls>>
       ELSE IF name \notin DOMAIN groups[h]
       THEN /\ last' = [Returned("Unregister", h, name, None) EXCEPT
                           !.err = NewErrResourceNotFound(h, name)]
            /\ UNCHANGED <<groups, closeCalls>>
       ELSE LET conn == groups[h][name] IN
            /\ closeCalls' = IF conn.ready /\ ~closerNil
                             THEN CloserInvoked(closeCalls, <<conn.val.id>>)
                             ELSE closeCalls
            /\ IF conn.ready /\ ~closerNil /\ closerErr # NoErr
               THEN /\ groups' = groups
                    /\ last' = [Returned("Unregister", h, name, None) EXCEPT
                                   !.err = NewErrCloseResourceFailed(h, name, closerErr)]
               ELSE /\ groups' = [groups EXCEPT ![h] = MapDelete(@, name)]
                    /\ last' = Returned("Unregister", h, name, None)
    /\ openerLog' = FollowRecords(openerLog, groups')
    /\ UNCHANGED <<workload, closerNil, mu, th, nOpen>>

\* Unregister that closes the resource and leaves the record in the group
UnregisterKeepsRecord(t, h, name, closerErr) ==
    /\ CanRun(t)
    /\ IF h \notin DOMAIN groups
       THEN /\ last' = [Returned("Unregister", h, name, None) EXCEPT
                           !.err = NewErrGroupNotFound(h)]
            /\ UNCHANGED closeCalls
       ELSE IF name \notin DOMAIN groups[h]
       THEN /\ last' = [Returned("Unregister", h, name, None) EXCEPT
                           !.err = NewErrResourceNotFound(h, name)]
            /\ UNCHANGED closeCalls
       ELSE LET conn == groups[h][name] IN
            /\ closeCalls' = IF conn.ready /\ ~closerNil
                             THEN CloserInvoked(closeCalls, <<conn.val.id>>)
                             ELSE closeCalls
            /\ last' = Returned("Unregister", h, name, None)
    /\ UNCHANGED <<workload, groups, closerNil, mu, th, nOpen, openerLog>>

\* Unregister that hands the value to the closer without looking at ready
UnregisterClosesUnready(t, h, name, closerErr) ==
    /\ CanRun(t)
    /\ IF h \notin DOMAIN groups
       THEN /\ last' = [Returned("Unregister", h, name, None) EXCEPT
                           !.err = NewErrGroupNotFound(h)]
            /\ UNCHANGED <<groups, closeCalls>>
       ELSE IF name \notin DOMAIN groups[h]
       THEN /\ last' = [Returned("Unregister", h, name, None) EXCEPT
                           !.err = NewErrResourceNotFound(h, name)]
            /\ UNCHANGED <<groups, closeCalls>>
       ELSE LET conn == groups[h][name] IN
            /\ closeCalls' = IF ~closerNil
                             THEN CloserInvoked(closeCalls, <<conn.val.id>>)
                             ELSE closeCalls
            /\ groups' = [groups EXCEPT ![h] = MapDelete(@, name)]
            /\ last' = Returned("Unregister", h, name, None)
    /\ openerLog' = FollowRecords(openerLog, groups')
    /\ UNCHANGED <<workload, closerNil, mu, th, nOpen>>

\* Unregister that closes the value and keeps the record, only marking it
\* unready
UnregisterMarksUnready(t, h, name, closerErr) ==
    /\ CanRun(t)
    /\ IF h \notin DOMAIN groups
       THEN /\ last' = [Returned("Unregister", h, name, None) EXCEPT
                           !.err = NewErrGroupNotFound(h)]
            /\ UNCHANGED <<groups, closeCalls>>
       ELSE IF name \notin DOMAIN groups[h]
       THEN /\ last' = [Returned("Unregister", h, name, None) EXCEPT
                           !.err = NewErrResourceNotFound(h, name)]
            /\ UNCHANGED <<groups, closeCalls>>
       ELSE LET conn == groups[h][name] IN
            /\ closeCalls' = IF conn.ready /\ ~closerNil
                             THEN CloserInvoked(closeCalls, <<conn.val.id>>)
                             ELSE closeCalls
            /\ groups' = [groups EXCEPT ![h][name] = NewConnection(conn.cfg)]
            /\ last' = Returned("Unregister", h, name, None)
    /\ openerLog' = [p \in LiveRecords(groups') |->
                        IF p = <<h, name>> THEN ZeroLog ELSE openerLog[p]]
    /\ UNCHANGED <<workload, closerNil, mu, th, nOpen>>

\* Unregister that succeeds, doing nothing, when the handle's group is gone
UnregisterGoneGroupOk(t, h, name, closerErr) ==
    /\ CanRun(t)
    /\ IF h \notin DOMAIN groups
       THEN /\ last' = Returned("Unregister", h, name, None)
            /\ UNCHANGED <<groups, closeCalls>>
       ELSE IF name \notin DOMAIN groups[h]
       THEN /\ last' = [Returned("Unregister", h, name, None) EXCEPT
                           !.err = NewErrResourceNotFound(h, name)]
            /\ UNCHANGED <<groups, closeCalls>>
       ELSE LET conn == groups[h][name] IN
            /\ closeCalls' = IF conn.ready /\ ~closerNil
                             THEN CloserInvoked(closeCalls, <<conn.val.id>>)
                             ELSE closeCalls
            /\ groups' = [groups EXCEPT ![h] = MapDelete(@, name)]
            /\ last' = Returned("Unregister", h, name, None)
    /\ openerLog' = FollowRecords(openerLog, groups')
    /\ UNCHANGED <<workload, closerNil, mu, th, nOpen>>

\* group.Unregister; closerErr is what the closer returns if it is invoked,
\* and it is dropped
Unregister(t, h, name, closerErr) ==
    /\ CanRun(t)
    /\ IF h \notin DOMAIN groups
       THEN /\ last' = [Returned("Unregister", h, name, None) EXCEPT
                           !.err = NewErrGroupNotFound(h)]
            /\ UNCHANGED <<groups, closeCalls>>
       ELSE IF name \notin DOMAIN groups[h]
       THEN /\ last' = [Returned("Unregister", h, name, None) EXCEPT
                           !.err = NewErrResourceNotFound(h, name)]
            /\ UNCHANGED <<groups, closeCalls>>
       ELSE LET conn == groups[h][name] IN
            /\ closeCalls' = IF conn.ready /\ ~closerNil
                             THEN CloserInvoked(closeCalls, <<conn.val.id>>)
                             ELSE closeCalls
            /\ groups' = [groups EXCEPT ![h] = MapDelete(@, name)]
            /\ last' = Returned("Unregister", h, name, None)
    /\ openerLog' = FollowRecords(openerLog, groups')
    /\ UNCHANGED <<workload, closerNil, mu, th, nOpen>>

\* List that returns the names of the manager's groups
ListGroupsInstead(t, h) ==
    /\ CanRun(t)
    /\ IF h \notin DOMAIN groups
       THEN last' = Returned("List", h, None, None)
       ELSE \E order \in RangeOrders(DOMAIN groups) :
                last' = [Returned("List", h, None, None) EXCEPT !.names = order]
    /\ UNCHANGED <<workload, groups, closerNil, mu, th, nOpen, openerLog, closeCalls>>

\* group.List: the resource names of the group in map iteration order
List(t, h) ==
    /\ CanRun(t)
    /\ IF h \notin DOMAIN groups
       THEN last' = Returned("List", h, None, None)
       ELSE \E order \in RangeOrders(DOMAIN groups[h]) :
                last' = [Returned("List", h, None, None) EXCEPT !.names = order]
    /\ UNCHANGED <<workload, groups, closerNil, mu, th, nOpen, openerLog, closeCalls>>

\* group.Close that resets the whole map of groups instead of deleting its own
GroupCloseDropsAll(t, h, order, failing) ==
    /\ CanRun(t)
    /\ IF h \notin DOMAIN groups
       THEN /\ last' = Returned("GroupClose", h, None, None)
            /\ UNCHANGED <<groups, closeCalls>>
       ELSE LET pass == ClosePass(closerNil, h, groups[h], order, failing) IN
            /\ closeCalls' = CloserInvoked(closeCalls, pass.closed)
            /\ last' = [Returned("GroupClose", h, None, None) EXCEPT
                           !.list = pass.errs]
            /\ groups' = EmptyMap
    /\ openerLog' = FollowRecords(openerLog, groups')
    /\ UNCHANGED <<workload, closerNil, mu, th, nOpen>>

\* group.Close that reports GroupNotFound when its group is gone
GroupCloseAbsentFails(t, h, order, failing) ==
    /\ CanRun(t)
    /\ IF h \notin DOMAIN groups
       THEN /\ last' = [Returned("GroupClose", h, None, None) EXCEPT
                           !.list = <<NewErrGroupNotFound(h)>>]
            /\ UNCHANGED <<groups, closeCalls>>
       ELSE LET pass == ClosePass(closerNil, h, groups[h], order, failing) IN
            /\ closeCalls' = CloserInvoked(closeCalls, pass.closed)
            /\ last' = [Returned("GroupClose", h, None, None) EXCEPT
                           !.list = pass.errs]
            /\ groups' = MapDelete(groups, h)
    /\ openerLog' = FollowRecords(openerLog, groups')
    /\ UNCHANGED <<workload, closerNil, mu, th, nOpen>>

\* group.Close that hands the values to the closer and leaves the group, with
\* its records, in the registry
GroupCloseKeepsGroup(t, h, order, failing) ==
    /\ CanRun(t)
    /\ IF h \notin DOMAIN groups
       THEN /\ last' = Returned("GroupClose", h, None, None)
            /\ UNCHANGED <<groups, closeCalls>>
       ELSE LET pass == ClosePass(closerNil, h, groups[h], order, failing) IN
            /\ closeCalls' = CloserInvoked(closeCalls, pass.closed)
            /\ last' = [Returned("GroupClose", h, None, None) EXCEPT
                           !.list = pass.errs]
            /\ groups' = groups
    /\ openerLog' = FollowRecords(openerLog, groups')
    /\ UNCHANGED <<workload, closerNil, mu, th, nOpen>>

\* group.Close; order is the order in which the range loop visits the
\* resources, failing the resources whose closer fails
GroupClose(t, h, order, failing) ==
    /\ CanRun(t)
    /\ IF h \notin DOMAIN groups
       THEN /\ last' = Returned("GroupClose", h, None, None)
            /\ UNCHANGED <<groups, closeCalls>>
       ELSE LET pass == ClosePass(closerNil, h, groups[h], order, failing) IN
            /\ closeCalls' = CloserInvoked(closeCalls, pass.closed)
            /\ last' = [Returned("GroupClose", h, None, None) EXCEPT
                           !.list = pass.errs]
            /\ groups' = MapDelete(groups, h)
    /\ openerLog' = FollowRecords(openerLog, groups')
    /\ UNCHANGED <<workload, closerNil, mu, th, nOpen>>

\* the resource names a range loop over group h visits (none when h is gone)
NamesOf(h) == IF h \in DOMAIN groups THEN DOMAIN groups[h] ELSE {}

\* the result of Ping
PingReturned(h, name, err) ==
    [Returned("Ping", h, name, None) EXCEPT !.err = err]

\* Ping that answers from the cache when the record is ready
PingSkipsReady(t, h, name) ==
    /\ CanRun(t)
    /\ IF h \notin DOMAIN groups
       THEN /\ last' = PingReturned(h, name, NewErrGroupNotFound(h))
            /\ UNCHANGED <<th, nOpen>>
       ELSE IF name \notin DOMAIN groups[h]
       THEN /\ last' = PingReturned(h, name, NewErrResourceNotFound(h, name))
            /\ UNCHANGED <<th, nOpen>>
       ELSE IF groups[h][name].ready
       THEN /\ last' = PingReturned(h, name, NoErr)
            /\ UNCHANGED <<th, nOpen>>
       ELSE /\ nOpen < MaxOpens
            /\ nOpen' = nOpen + 1
            /\ th' = [th EXCEPT ![t] = [pc |-> "Ping.Opener", h |-> h, name |-> name]]
            /\ UNCHANGED last
    /\ UNCHANGED <<workload, groups, closerNil, mu, openerLog, closeCalls>>

\* group.Ping: resolve the group and the record, then invoke the opener on the
\* stored configuration whatever the ready flag says.  The lock is not held
\* during the trial invocation, so every other call may run meanwhile.
Ping(t, h, name) ==
    /\ CanRun(t)
    /\ IF h \notin DOMAIN groups
       THEN /\ last' = PingReturned(h, name, NewErrGroupNotFound(h))
            /\ UNCHANGED <<th, nOpen>>
       ELSE IF name \notin DOMAIN groups[h]
       THEN /\ last' = PingReturned(h, name, NewErrResourceNotFound(h, name))
            /\ UNCHANGED <<th, nOpen>>
       ELSE /\ nOpen < MaxOpens
            /\ nOpen' = nOpen + 1
            /\ th' = [th EXCEPT ![t] = [pc |-> "Ping.Opener", h |-> h, name |-> name]]
            /\ UNCHANGED last
    /\ UNCHANGED <<workload, groups, closerNil, mu, openerLog, closeCalls>>

\* Ping that stores what the opener built, as Get does
PingOpenedCaches(t) ==
    /\ th[t].pc = "Ping.Opener"
    /\ LET h == th[t].h
           name == th[t].name
       IN  groups' = IF h \in DOMAIN groups /\ name \in DOMAIN groups[h]
                     THEN [groups EXCEPT ![h][name] =
                              [@ EXCEPT !.val = NewResource(nOpen, @.cfg), !.ready = TRUE]]
                     ELSE groups
    /\ last' = PingReturned(th[t].h, th[t].name, NoErr)
    /\ th' = [th EXCEPT ![t] = Idle]
    /\ UNCHANGED <<workload, closerNil, mu, nOpen, openerLog, closeCalls>>

\* group.Ping: the opener succeeds; the value it built is dropped
PingOpened(t) ==
    /\ th[t].pc = "Ping.Opener"
    /\ last' = PingReturned(th[t].h, th[t].name, NoErr)
    /\ th' = [th EXCEPT ![t] = Idle]
    /\ UNCHANGED <<workload, groups, closerNil, mu, nOpen, openerLog, closeCalls>>

\* group.Ping: the opener fails
PingOpenFailed(t, err) ==
    /\ th[t].pc = "Ping.Opener"
    /\ last' = PingReturned(th[t].h, th[t].name,
                            NewErrPingResourceFailed(th[t].h, th[t].name, err))
    /\ th' = [th EXCEPT ![t] = Idle]
    /\ UNCHANGED <<workload, groups, closerNil, mu, nOpen, openerLog, closeCalls>>

\* the result of Config
ConfigReturned(h, name, cfg, err) ==
    [Returned("Config", h, name, cfg) EXCEPT !.err = err]

\* Config that knows only the records that are ready
ConfigNeedsReady(t, h, name) ==
    /\ CanRun(t)
    /\ IF h \notin DOMAIN groups
       THEN last' = ConfigReturned(h, name, None, NewErrGroupNotFound(h))
       ELSE IF name \notin DOMAIN groups[h] \/ ~groups[h][name].ready
       THEN last' = ConfigReturned(h, name, None, NewErrResourceNotFound(h, name))
       ELSE last' = ConfigReturned(h, name, groups[h][name].cfg, NoErr)
    /\ UNCHANGED <<workload, groups, closerNil, mu, th, nOpen, openerLog, closeCalls>>

\* group.Config: the stored configuration of a registered name, with the
\* not-found failures of Get
Config(t, h, name) ==
    /\ CanRun(t)
    /\ IF h \notin DOMAIN groups
       THEN last' = ConfigReturned(h, name, None, NewErrGroupNotFound(h))
       ELSE IF name \notin DOMAIN groups[h]
       THEN last' = ConfigReturned(h, name, None, NewErrResourceNotFound(h, name))
       ELSE last' = ConfigReturned(h, name, groups[h][name].cfg, NoErr)
    /\ UNCHANGED <<workload, groups, closerNil, mu, th, nOpen, openerLog, closeCalls>>

\* ---- specification ----------------------------------------------------------
Next ==
    \/ \E t \in workload.threads, name \in workload.groups : AddGroup(t, name) /\ UNCHANGED mapBy
    \/ \E t \in workload.threads, name \in workload.groups : ManagerGroup(t, name) /\ UNCHANGED mapBy
    \/ \E t \in workload.threads : ListGroupNames(t) /\ UNCHANGED mapBy
    \/ \E t \in workload.threads :
         \E outer \in RangeOrders(DOMAIN groups), inner \in InnerOrders(groups),
            failing \in SUBSET CloserTargets(closerNil, groups) :
           ManagerClose(t, outer, inner, failing) /\ UNCHANGED mapBy
    \/ \E t \in workload.threads, h \in workload.groups, name \in workload.names :
           Get(t, h, name) /\ UNCHANGED mapBy
    \/ \E t \in workload.threads : GetSlow(t) /\ UNCHANGED mapBy
    \/ \E t \in workload.threads : GetOpened(t) /\ UNCHANGED mapBy
    \/ \E t \in workload.threads, err \in OpenerErrs : GetOpenFailed(t, err) /\ UNCHANGED mapBy
    \/ \E t \in workload.threads, h \in workload.groups, name \in workload.names,
          cfg \in Cfgs : Register(t, h, name, cfg) /\ UNCHANGED mapBy
    \/ \E t \in workload.threads, h \in workload.groups, name \in workload.names :
         \E closerErr \in CloserOutcomes(h, name) : Unregister(t, h, name, closerErr) /\ UNCHANGED mapBy
    \/ \E t \in workload.threads, h \in workload.groups : List(t, h) /\ UNCHANGED mapBy
    \/ \E t \in workload.threads, h \in workload.groups :
         \E order \in RangeOrders(NamesOf(h)),
            failing \in SUBSET {p \in CloserTargets(closerNil, groups) : p[1] = h} :
           GroupClose(t, h, order, failing) /\ UNCHANGED mapBy
    \/ \E t \in workload.threads, h \in workload.groups, name \in workload.names :
           Ping(t, h, name) /\ UNCHANGED mapBy
    \/ \E t \in workload.threads : PingOpened(t) /\ UNCHANGED mapBy
    \/ \E t \in workload.threads, err \in OpenerErrs : PingOpenFailed(t, err) /\ UNCHANGED mapBy
    \/ \E t \in workload.threads, h \in workload.groups, name \in workload.names :
           Config(t, h, name) /\ UNCHANGED mapBy

Spec == Init /\ [][Next]_vars

\* ---- fair scheduling ---------------------------------------------------
\* The callers start a call that may invoke the opener only while the cap on
\* opener invocations leaves room for it and for every Get already waiting
\* for the write lock, so that no call in progress is cut short by the cap.
OpenBudget == nOpen + Cardinality({u \in Threads : th[u].pc = "Get.Lock"}) < MaxOpens

NextFair ==
    \/ \E t \in workload.threads, name \in workload.groups : AddGroup(t, name) /\ UNCHANGED mapBy
    \/ \E t \in workload.threads, name \in workload.groups : ManagerGroup(t, name) /\ UNCHANGED mapBy
    \/ \E t \in workload.threads : ListGroupNames(t) /\ UNCHANGED mapBy
    \/ \E t \in workload.threads :
         \E outer \in RangeOrders(DOMAIN groups), inner \in InnerOrders(groups),
            failing \in SUBSET CloserTargets(closerNil, groups) :
           ManagerClose(t, outer, inner, failing) /\ UNCHANGED mapBy
    \/ \E t \in workload.threads, h \in workload.groups, name \in workload.names :
           OpenBudget /\ Get(t, h, name) /\ UNCHANGED mapBy
    \/ \E t \in workload.threads : GetSlow(t) /\ UNCHANGED mapBy
    \/ \E t \in workload.threads : GetOpened(t) /\ UNCHANGED mapBy
    \/ \E t \in workload.threads, err \in OpenerErrs : GetOpenFailed(t, err) /\ UNCHANGED mapBy
    \/ \E t \in workload.threads, h \in workload.groups, name \in workload.names,
          cfg \in Cfgs : Register(t, h, name, cfg) /\ UNCHANGED mapBy
    \/ \E t \in workload.threads, h \in workload.groups, name \in workload.names :
         \E closerErr \in CloserOutcomes(h, name) : Unregister(t, h, name, closerErr) /\ UNCHANGED mapBy
    \/ \E t \in workload.threads, h \in workload.groups : List(t, h) /\ UNCHANGED mapBy
    \/ \E t \in workload.threads, h \in workload.groups :
         \E order \in RangeOrders(NamesOf(h)),
            failing \in SUBSET {p \in CloserTargets(closerNil, groups) : p[1] = h} :
           GroupClose(t, h, order, failing) /\ UNCHANGED mapBy
    \/ \E t \in workload.threads, h \in workload.groups, name \in workload.names :
           OpenBudget /\ Ping(t, h, name) /\ UNCHANGED mapBy
    \/ \E t \in workload.threads : PingOpened(t) /\ UNCHANGED mapBy
    \/ \E t \in workload.threads, err \in OpenerErrs : PingOpenFailed(t, err) /\ UNCHANGED mapBy
    \/ \E t \in workload.threads, h \in workload.groups, name \in workload.names :
           Config(t, h, name) /\ UNCHANGED mapBy

\* Every opener invocation returns (with a value or with an error), and a
\* goroutine blocked in mu.Lock() gets the lock if it is released again and
\* again: sync.RWMutex does not starve a waiting writer.
\* Each of these steps moves its thread, so the fairness is stated over th.
Fairness ==
    \A t \in Threads :
        /\ SF_th(GetSlow(t))
        /\ WF_th(GetOpened(t) \/ \E err \in OpenerErrs : GetOpenFailed(t, err))
        /\ WF_th(PingOpened(t) \/ \E err \in OpenerErrs : PingOpenFailed(t, err))

SpecFair == Init /\ [][NextFair]_vars /\ Fairness

\* ---- maputil.MapBy ------------------------------------------------------
\* a call MapBy(list, key, value) about to start; a nil list and an empty
\* list are both the list of length 0
InitMapBy ==
    /\ workload = CHOOSE w \in Workloads : w.threads = {"t1"}
    /\ groups = EmptyMap
    /\ closerNil = FALSE
    /\ mu = "free"
    /\ th = [t \in Threads |-> Idle]
    /\ last = NoRet
    /\ nOpen = 0
    /\ openerLog = FollowRecords(EmptyMap, EmptyMap)
    /\ closeCalls = [k \in ResourceIds |-> 0]
    /\ \E list \in Lists, key \in [Elems -> Keys], value \in [Elems -> Vals] :
          mapBy = [pc |-> "make", list |-> list, key |-> key, value |-> value,
                   i |-> 0, m |-> NilMap, ret |-> NilMap]

\* m := make(map[K]V, 0)
MapByMake ==
    /\ mapBy.pc = "make"
    /\ mapBy' = [mapBy EXCEPT !.pc = "range", !.m = MakeMap, !.i = 1]
    /\ UNCHANGED vars

\* a loop body that keeps the value a key already has
MapByFirstWins ==
    /\ mapBy.pc = "range"
    /\ mapBy.i <= Len(mapBy.list)
    /\ LET v == mapBy.list[mapBy.i] IN
       mapBy' = [mapBy EXCEPT
                    !.m.kv = IF mapBy.key[v] \in DOMAIN @ THEN @
                             ELSE MapPut(@, mapBy.key[v], mapBy.value[v]),
                    !.i = @ + 1]
    /\ UNCHANGED vars

\* one iteration of the range loop: m[key(v)] = value(v)
MapBy ==
    /\ mapBy.pc = "range"
    /\ mapBy.i <= Len(mapBy.list)
    /\ LET v == mapBy.list[mapBy.i] IN
       mapBy' = [mapBy EXCEPT !.m.kv = MapPut(@, mapBy.key[v], mapBy.value[v]),
                              !.i = @ + 1]
    /\ UNCHANGED vars

\* return m
MapByReturn ==
    /\ mapBy.pc = "range"
    /\ mapBy.i > Len(mapBy.list)
    /\ mapBy' = [mapBy EXCEPT !.pc = "done", !.ret = mapBy.m]
    /\ UNCHANGED vars

NextMapBy ==
    \/ MapByMake
    \/ MapBy
    \/ MapByReturn

SpecMapBy == InitMapBy /\ [][NextMapBy]_<<vars, mapBy>>

\* ---- properties -------------------------------------------------------------
Live(h, name) == h \in DOMAIN groups /\ name \in DOMAIN groups[h]

Ready(h, name) == Live(h, name) /\ groups[h][name].ready

\* the step is the return of a call of op: the result is recorded and no
\* thread moves further into a call
Returns(op) ==
    /\ last'.op = op
    /\ \A t \in Threads : th'[t] = th[t] \/ th'[t].pc = "idle"

\* the closer has been invoked once more on exactly the resources in ids
ClosedOnceMore(ids) ==
    closeCalls' = [k \in DOMAIN closeCalls |->
                      IF k \in ids THEN closeCalls[k] + 1 ELSE closeCalls[k]]

\* the values on which a close pass over the groups in scope must invoke the closer
ReadyIds(scope) ==
    IF closerNil THEN {}
    ELSE {groups[p[1]][p[2]].val.id :
             p \in {q \in LiveRecords(groups) : q[1] \in scope /\ groups[q[1]][q[2]].ready}}

\* C1: for every registered resource the opener has been invoked by Get/MustGet
\* at most (number of its failed invocations) + 1 times, whatever the number of
\* concurrent callers; once the resource is ready exactly one invocation has
\* succeeded (a single one when none failed), and a successful Get or MustGet
\* returns the value cached in the record, so all callers receive the same value.
C1_OpenerAtMostOncePerSuccess ==
    /\ \A p \in LiveRecords(groups) :
         LET conn == groups[p[1]][p[2]]
             log  == openerLog[p]
             opening == {t \in Threads : th[t].pc = "Get.Opener"
                                         /\ <<th[t].h, th[t].name>> = p}
         IN  /\ log.calls <= log.fails + 1
             /\ conn.ready => log.calls = log.fails + 1 /\ conn.val.id # 0
             /\ ~conn.ready => log.calls = log.fails + Cardinality(opening)
    /\ (last.op = "Get" /\ last.err = NoErr) =>
          /\ Ready(last.h, last.name)
          /\ last.val = groups[last.h][last.name].val
          /\ Must(last) = [panicked |-> FALSE, panic |-> NoErr,
                           val |-> groups[last.h][last.name].val, h |-> last.h]

\* a second caller waits for the write lock while the first one has already
\* opened the resource with a single invocation
C1_Witness ==
    \E t \in Threads :
        /\ th[t].pc = "Get.Lock"
        /\ Ready(th[t].h, th[t].name)
        /\ openerLog[<<th[t].h, th[t].name>>] = [calls |-> 1, fails |-> 0]
        /\ last.op = "Get" /\ last.err = NoErr
        /\ <<last.h, last.name>> = <<th[t].h, th[t].name>>

\* C2: a Get on a resource that is ready returns the cached value and does not
\* invoke the opener, and the cached value of a ready record stays the same
\* for as long as the record is registered.
C2_ReadyGetReturnsCached ==
    [][ /\ (Returns("Get") /\ Ready(last'.h, last'.name)) =>
              /\ last'.err = NoErr
              /\ last'.val = groups[last'.h][last'.name].val
              /\ nOpen' = nOpen /\ openerLog' = openerLog /\ groups' = groups
        /\ \A p \in LiveRecords(groups) :
             (groups[p[1]][p[2]].ready /\ p \in LiveRecords(groups')) =>
                 groups'[p[1]][p[2]] = groups[p[1]][p[2]]
      ]_vars

\* a Get returned a cached value after the opener had been invoked again for
\* another resource
C2_Witness ==
    /\ last.op = "Get" /\ last.err = NoErr
    /\ last.val.id # 0 /\ last.val.id < nOpen
    /\ Ready(last.h, last.name)

\* C3: when the opener fails inside Get, Get returns the opener's error itself,
\* the record stays registered and unready, and a Get that finds a registered
\* record unready under the write lock invokes the opener (again) and does not
\* return before the opener has.
C3_OpenerFailureRetried ==
    [][ /\ \A t \in Threads, err \in OpenerErrs :
             (th[t].pc = "Get.Opener" /\ GetOpenFailed(t, err)) =>
                 /\ last'.op = "Get" /\ last'.err = err /\ last'.val = ZeroVal
                 /\ last'.h = th[t].h /\ last'.name = th[t].name
                 /\ groups' = groups
                 /\ Live(th[t].h, th[t].name) /\ ~Ready(th[t].h, th[t].name)
                 /\ mu' = "free" /\ th'[t].pc = "idle"
        /\ \A t \in Threads :
             (th[t].pc = "Get.Lock" /\ th'[t] # th[t]
                  /\ Live(th[t].h, th[t].name) /\ ~Ready(th[t].h, th[t].name)) =>
                 /\ th'[t].pc = "Get.Opener"
                 /\ nOpen' = nOpen + 1
                 /\ openerLog'[<<th[t].h, th[t].name>>].calls =
                        openerLog[<<th[t].h, th[t].name>>].calls + 1
        /\ (Returns("Get") /\ Live(last'.h, last'.name) /\ ~Ready(last'.h, last'.name)) =>
              \E t \in Threads : th[t].pc = "Get.Opener" /\ th'[t].pc = "idle"
      ]_vars

\* the opener runs again for a resource whose earlier opening failed
C3_Witness ==
    \E t \in Threads :
        /\ th[t].pc = "Get.Opener"
        /\ openerLog[<<th[t].h, th[t].name>>].fails >= 1
        /\ ~Ready(th[t].h, th[t].name)

\* C4: Register on a name already present in the group returns isNew = false
\* and changes nothing: configuration, ready flag and cached value of the
\* record (and everything else) stay as they were; the new cfg is discarded.
C4_RegisterExistingIsNoOp ==
    [][ (Returns("Register") /\ Live(last'.h, last'.name)) =>
            /\ last'.flag = FALSE /\ last'.err = NoErr
            /\ groups' = groups
            /\ nOpen' = nOpen /\ closeCalls' = closeCalls /\ openerLog' = openerLog
      ]_vars

\* a Register with another configuration was turned down on a ready record
C4_Witness ==
    /\ last.op = "Register" /\ ~last.flag
    /\ Ready(last.h, last.name)
    /\ groups[last.h][last.name].cfg # last.cfg
    /\ groups[last.h][last.name].val.cfg = groups[last.h][last.name].cfg

\* C5: Register of a new name returns isNew = true and inserts a record with
\* the given configuration and ready = false, touching no other record and
\* invoking neither the opener nor the closer; a record for which Get has not
\* invoked the opener is unready.
C5_RegisterNewIsLazy ==
    [][ /\ (Returns("Register") /\ ~Live(last'.h, last'.name)) =>
              /\ last'.flag = TRUE /\ last'.err = NoErr
              /\ LiveRecords(groups') = LiveRecords(groups) \cup {<<last'.h, last'.name>>}
              /\ DOMAIN groups' = DOMAIN groups \cup {last'.h}
              /\ groups'[last'.h][last'.name] =
                     [cfg |-> last'.cfg, val |-> ZeroVal, ready |-> FALSE]
              /\ \A p \in LiveRecords(groups) : groups'[p[1]][p[2]] = groups[p[1]][p[2]]
              /\ nOpen' = nOpen /\ closeCalls' = closeCalls
              /\ openerLog'[<<last'.h, last'.name>>].calls = 0
        /\ \A p \in LiveRecords(groups') :
              openerLog'[p].calls = 0 => groups'[p[1]][p[2]] = NewConnection(groups'[p[1]][p[2]].cfg)
      ]_vars

\* a name was registered after another resource had been opened, and is unready
C5_Witness ==
    /\ last.op = "Register" /\ last.flag
    /\ nOpen >= 1
    /\ Live(last.h, last.name)
    /\ groups[last.h][last.name] = NewConnection(last.cfg)
    /\ \E p \in LiveRecords(groups) : groups[p[1]][p[2]].ready

\* C6: Unregister of a ready resource invokes the closer (when there is one)
\* exactly once, on the cached value, and removes the record; Unregister of an
\* unready resource removes the record without invoking the closer; a Get on a
\* name that is not in an existing group fails with ResourceNotFound.
C6_UnregisterClosesReady ==
    [][ /\ (Returns("Unregister") /\ Live(last'.h, last'.name)) =>
              LET conn == groups[last'.h][last'.name] IN
              /\ last'.err = NoErr
              /\ ClosedOnceMore(IF conn.ready /\ ~closerNil THEN {conn.val.id} ELSE {})
              /\ LiveRecords(groups') = LiveRecords(groups) \ {<<last'.h, last'.name>>}
              /\ DOMAIN groups' = DOMAIN groups
              /\ \A p \in LiveRecords(groups') : groups'[p[1]][p[2]] = groups[p[1]][p[2]]
              /\ nOpen' = nOpen
        /\ (Returns("Get") /\ last'.h \in DOMAIN groups /\ ~Live(last'.h, last'.name)) =>
              /\ last'.err = NewErrResourceNotFound(last'.h, last'.name)
              /\ last'.val = ZeroVal
              /\ groups' = groups /\ nOpen' = nOpen
      ]_vars

\* resource b was opened second and then unregistered (a, opened first, is
\* still ready, so no Close took place); the closer ran on b's value and a Get
\* of b reports ResourceNotFound
C6_Witness ==
    /\ Ready("g1", "a") /\ groups["g1"]["a"].val.id = 1
    /\ ~Live("g1", "b")
    /\ nOpen = 2 /\ closeCalls[2] = 1 /\ closeCalls[1] = 0
    /\ last.op = "Get" /\ last.name = "b"
    /\ last.err = NewErrResourceNotFound("g1", "b")

\* C7: Group.Close invokes the closer on every ready resource of that group
\* and on no other resource, then removes the group; every other group and
\* its records are unchanged.
C7_GroupCloseOnlyOwnGroup ==
    [][ (Returns("GroupClose") /\ last'.h \in DOMAIN groups) =>
            /\ ClosedOnceMore(ReadyIds({last'.h}))
            /\ DOMAIN groups' = DOMAIN groups \ {last'.h}
            /\ \A g \in DOMAIN groups' : groups'[g] = groups[g]
            /\ nOpen' = nOpen
      ]_vars

\* a group was closed with its ready resource (whose closer failed) while the
\* ready resource of the other group was neither closed nor removed
C7_Witness ==
    /\ last.op = "GroupClose" /\ Len(last.list) = 1
    /\ nOpen = 2
    /\ \E g \in DOMAIN groups, k \in {1, 2} :
          /\ g # last.h
          /\ Ready(g, "a") /\ groups[g]["a"].val.id = k
          /\ closeCalls[k] = 0 /\ closeCalls[3 - k] = 1

\* C8: Manager.Close invokes the closer exactly once on the cached value of
\* every ready resource of every group and never on an unready resource (whose
\* value is the zero value).
C8_ManagerCloseClosesAllReady ==
    [][ Returns("ManagerClose") =>
            /\ ClosedOnceMore(ReadyIds(DOMAIN groups))
            /\ closeCalls'[0] = 0
            /\ nOpen' = nOpen
      ]_vars

\* Manager.Close ran over two groups holding a ready resource each (both
\* closers were invoked in this pass: each reported a failure)
C8_Witness ==
    /\ last.op = "ManagerClose"
    /\ workload.groups = {"g1", "g2"}
    /\ {last.list[i].group : i \in DOMAIN last.list} = {"g1", "g2"}
    /\ closeCalls[1] = 1 /\ closeCalls[2] = 1 /\ closeCalls[0] = 0

\* C9: after Manager.Close the registry is empty whatever the closers
\* returned; on an empty registry ListGroupNames is empty and Group(n) fails
\* with GroupNotFound, and only AddGroup or Register make it non-empty again.
C9_ManagerCloseEmptiesRegistry ==
    [][ /\ Returns("ManagerClose") => groups' = EmptyMap
        /\ (Returns("ListGroupNames") /\ groups = EmptyMap) => last'.names = <<>>
        /\ (Returns("Group") /\ groups = EmptyMap) =>
              /\ last'.err = NewErrGroupNotFound(last'.name)
              /\ groups' = EmptyMap
        /\ (groups = EmptyMap /\ groups' # EmptyMap) =>
              (Returns("AddGroup") \/ Returns("Register"))
      ]_vars

\* Manager.Close emptied the registry although a closer failed
C9_Witness ==
    /\ last.op = "ManagerClose" /\ Len(last.list) >= 1
    /\ groups = EmptyMap

\* the errors a close pass must report when the closers of the resources in
\* failing fail: one CloseResourceFailed error for each of them, nothing else
ReportsExactly(errs, failing) ==
    /\ Len(errs) = Cardinality(failing)
    /\ \A p \in failing :
          \E i \in DOMAIN errs :
              errs[i] = NewErrCloseResourceFailed(p[1], p[2], CloserErr)

\* C10: in Group.Close and Manager.Close a failing closer does not stop the
\* pass: the closer is invoked on every ready resource in scope, the returned
\* list holds exactly one CloseResourceFailed error per resource whose closer
\* failed, and the group(s) are removed.
C10_CloseContinuesPastFailures ==
    [][ /\ Returns("ManagerClose") =>
              \A t \in Threads, outer \in RangeOrders(DOMAIN groups),
                 inner \in InnerOrders(groups),
                 failing \in SUBSET CloserTargets(closerNil, groups) :
                  ManagerClose(t, outer, inner, failing) =>
                      /\ ReportsExactly(last'.list, failing)
                      /\ ClosedOnceMore(ReadyIds(DOMAIN groups))
                      /\ groups' = EmptyMap
        /\ (Returns("GroupClose") /\ last'.h \in DOMAIN groups) =>
              \A t \in Threads, order \in RangeOrders(NamesOf(last'.h)),
                 failing \in SUBSET {p \in CloserTargets(closerNil, groups) : p[1] = last'.h} :
                  GroupClose(t, last'.h, order, failing) =>
                      /\ ReportsExactly(last'.list, failing)
                      /\ ClosedOnceMore(ReadyIds({last'.h}))
                      /\ last'.h \notin DOMAIN groups'
      ]_vars

\* a pass in which the closers of two resources failed: both were invoked
\* and both failures are reported
C10_Witness ==
    /\ last.op \in {"GroupClose", "ManagerClose"}
    /\ Len(last.list) = 2
    /\ closeCalls[1] = 1 /\ closeCalls[2] = 1

\* C11: Group.Close through a handle whose group is not in the registry
\* (closed before, or never added) returns an empty error list, invokes no
\* closer and changes nothing; every Group.Close leaves its group absent, so a
\* second Close right after the first one is such a call and the state after
\* two Closes is the state after one.
C11_GroupCloseAbsentIsNoOp ==
    [][ /\ (Returns("GroupClose") /\ last'.h \notin DOMAIN groups) =>
              /\ last' = Returned("GroupClose", last'.h, None, None)
              /\ UNCHANGED <<groups, closerNil, mu, th, nOpen, openerLog, closeCalls>>
        /\ Returns("GroupClose") => last'.h \notin DOMAIN groups'
        /\ (last.op = "GroupClose" /\ Returns("GroupClose") /\ last'.h = last.h) =>
              /\ last' = [last EXCEPT !.list = <<>>]
              /\ UNCHANGED <<groups, closerNil, mu, th, nOpen, openerLog, closeCalls>>
      ]_vars

\* a Close through the handle of a group that is not in the registry returned
\* an empty list; the closer has run once, on the resource that group held,
\* and the other group still holds its ready resource
C11_Witness ==
    /\ last.op = "GroupClose" /\ last.list = <<>>
    /\ last.h \notin DOMAIN groups
    /\ ~closerNil /\ nOpen = 2
    /\ \E g \in DOMAIN groups, k \in {1, 2} :
          /\ Ready(g, "a") /\ groups[g]["a"].val.id = k
          /\ closeCalls[k] = 0 /\ closeCalls[3 - k] = 1

\* C12: in a registry built without a closer, Manager.Close and Group.Close
\* return an empty error list and Unregister returns no error, nothing is ever
\* handed to a closer, and the groups and records are removed as they are with
\* a closer: all groups, the handle's group, the named record.
C12_NilCloserNeverFails ==
    [][ closerNil =>
          /\ closeCalls' = closeCalls
          /\ Returns("ManagerClose") =>
                /\ last'.list = <<>>
                /\ groups' = EmptyMap
          /\ (Returns("GroupClose") /\ last'.h \in DOMAIN groups) =>
                /\ last'.list = <<>>
                /\ groups' = MapDelete(groups, last'.h)
          /\ (Returns("Unregister") /\ Live(last'.h, last'.name)) =>
                /\ last'.err = NoErr
                /\ groups' = [groups EXCEPT ![last'.h] = MapDelete(@, last'.name)]
      ]_vars

\* without a closer, Manager.Close returned an empty list and emptied a
\* registry for which the opener had run twice; no closer call was counted
C12_Witness ==
    /\ closerNil
    /\ last.op = "ManagerClose" /\ last.list = <<>>
    /\ groups = EmptyMap
    /\ nOpen = 2
    /\ \A k \in ResourceIds : closeCalls[k] = 0

\* a step of a Ping call: its lookup, or the return of its opener
PingStep ==
    \/ Returns("Ping")
    \/ \E t \in Threads : th[t].pc # "Ping.Opener" /\ th'[t].pc = "Ping.Opener"

\* C13: no step of a Ping, successful or failed, changes the registry: the
\* groups and, in every record, the configuration, the ready flag and the
\* cached value are the same after it as before (nor is a closer invoked), so
\* a record that was unready stays unready; a Get that then finds the record
\* unready invokes the opener and caches the value that invocation built.
C13_PingChangesNothing ==
    [][ /\ PingStep =>
              /\ groups' = groups
              /\ closeCalls' = closeCalls /\ openerLog' = openerLog /\ mu' = mu
        /\ \A t \in Threads :
             (th[t].pc = "Get.Lock" /\ th'[t] # th[t]
                  /\ Live(th[t].h, th[t].name) /\ ~Ready(th[t].h, th[t].name)) =>
                 /\ th'[t].pc = "Get.Opener"
                 /\ nOpen' = nOpen + 1
        /\ \A t \in Threads :
             (th[t].pc = "Get.Opener" /\ th'[t] # th[t] /\ last'.err = NoErr) =>
                 /\ Returns("Get")
                 /\ last'.val = NewResource(nOpen, groups[th[t].h][th[t].name].cfg)
                 /\ groups'[th[t].h][th[t].name] =
                        [groups[th[t].h][th[t].name] EXCEPT !.val = last'.val,
                                                            !.ready = TRUE]
      ]_vars

\* a Ping succeeded on a record that no Get has opened: the opener has run
\* once and the record is as Register left it
C13_Witness ==
    /\ last.op = "Ping" /\ last.err = NoErr
    /\ Live(last.h, last.name)
    /\ groups[last.h][last.name] = NewConnection(groups[last.h][last.name].cfg)
    /\ nOpen = 1
    /\ openerLog[<<last.h, last.name>>] = ZeroLog

C15_PingErrors ==
    [][ /\ (Returns("Ping") /\ \A t \in Threads : th[t].pc # "Ping.Opener" \/ th'[t] = th[t]) =>
              /\ nOpen' = nOpen
              /\ \A t \in Threads : th'[t] = th[t]
              /\ IF last'.h \notin DOMAIN groups
                 THEN /\ "ErrGroupNotFound" \in last'.err.is
                      /\ "ErrResourceNotFound" \notin last'.err.is
                 ELSE /\ ~Live(last'.h, last'.name)
                      /\ "ErrResourceNotFound" \in last'.err.is
                      /\ "ErrGroupNotFound" \notin last'.err.is
        /\ \A t \in Threads :
             (th[t].pc = "Ping.Opener" /\ th'[t] # th[t]) =>
                 /\ Returns("Ping")
                 /\ last'.h = th[t].h /\ last'.name = th[t].name
                 /\ PingOpened(t) => last'.err = NoErr
                 /\ \A err \in OpenerErrs :
                        PingOpenFailed(t, err) =>
                            /\ "ErrPingResourceFailed" \in last'.err.is
                            /\ last'.err.group = th[t].h
                            /\ last'.err.name = th[t].name
                 /\ last'.err = NoErr \/ "ErrPingResourceFailed" \in last'.err.is
      ]_vars

\* the opener failed under a Ping of a registered resource, and the Ping
\* returned an error matching PingResourceFailed
C15_Witness ==
    /\ last.op = "Ping"
    /\ "ErrPingResourceFailed" \in last.err.is
    /\ Live(last.h, last.name)
    /\ nOpen >= 1

\* C16: AddGroup(name) returns true iff the group exists when it is called;
\* returning false it adds an empty group of that name and nothing else,
\* returning true it changes nothing, the group keeping its records.  Hence a
\* name gets the answer false only on the step that takes it from absent to
\* present: once for each name as long as no group is removed.
C16_AddGroupReportsExisting ==
    [][ Returns("AddGroup") =>
          /\ last'.flag = (last'.name \in DOMAIN groups)
          /\ last'.err = NoErr
          /\ last'.flag => groups' = groups
          /\ ~last'.flag =>
                /\ DOMAIN groups' = DOMAIN groups \cup {last'.name}
                /\ groups'[last'.name] = EmptyMap
                /\ \A g \in DOMAIN groups : groups'[g] = groups[g]
                /\ Cardinality(DOMAIN groups') = Cardinality(DOMAIN groups) + 1
          /\ UNCHANGED <<closerNil, mu, th, nOpen, openerLog, closeCalls>>
      ]_vars

\* AddGroup answered true for a group that holds a ready resource, and the
\* group still holds it
C16_Witness ==
    /\ last.op = "AddGroup" /\ last.flag
    /\ Ready(last.name, "a")
    /\ groups[last.name]["a"].val.id = 1
    /\ closeCalls[1] = 0

\* C17: Manager.Group(name) returns a handle of the group, and no error, iff
\* the group exists when it is called; otherwise it returns an error matching
\* GroupNotFound.  Either way it creates no group and changes no state.
C17_GroupLookupOnly ==
    [][ Returns("Group") =>
          /\ (last'.err = NoErr) <=> (last'.name \in DOMAIN groups)
          /\ last'.name \in DOMAIN groups => last'.h = last'.name
          /\ last'.name \notin DOMAIN groups =>
                /\ last'.err = NewErrGroupNotFound(last'.name)
                /\ "ErrGroupNotFound" \in last'.err.is
                /\ last'.h = None
                /\ Must(last').panicked
          /\ UNCHANGED <<groups, closerNil, mu, th, nOpen, openerLog, closeCalls>>
      ]_vars

\* Group failed with GroupNotFound for a name that is absent from a registry
\* holding another group, which was left alone
C17_Witness ==
    /\ last.op = "Group"
    /\ "ErrGroupNotFound" \in last.err.is
    /\ last.name \notin DOMAIN groups
    /\ \E g \in DOMAIN groups : Ready(g, "a")

\* C18: a Get through a handle whose group is not in the registry fails with
\* an error matching GroupNotFound (and not ResourceNotFound: the group is
\* looked up first); a Get of a name that is not registered in an existing
\* group fails with an error matching ResourceNotFound.  This holds on the
\* fast path and after the wait for the write lock, and in both cases the
\* opener is not invoked: it is invoked only for a registered record.
C18_GetNotFound ==
    [][ /\ (Returns("Get") /\ ~Live(last'.h, last'.name)) =>
              /\ IF last'.h \notin DOMAIN groups
                 THEN /\ last'.err = NewErrGroupNotFound(last'.h)
                      /\ "ErrGroupNotFound" \in last'.err.is
                      /\ "ErrResourceNotFound" \notin last'.err.is
                 ELSE /\ last'.err = NewErrResourceNotFound(last'.h, last'.name)
                      /\ "ErrResourceNotFound" \in last'.err.is
                      /\ "ErrGroupNotFound" \notin last'.err.is
              /\ last'.val = ZeroVal
              /\ Must(last').panicked
              /\ \A t \in Threads : th[t].pc # "Get.Opener"
              /\ UNCHANGED <<groups, closerNil, mu, nOpen, openerLog, closeCalls>>
        /\ \A t \in Threads :
             (th[t].pc # "Get.Opener" /\ th'[t].pc = "Get.Opener") =>
                 Live(th'[t].h, th'[t].name)
      ]_vars

\* a Get failed with GroupNotFound on a group that was removed while another
\* Get of it waits for the write lock; the opener was never invoked
C18_Witness ==
    /\ last.op = "Get"
    /\ "ErrGroupNotFound" \in last.err.is
    /\ last.h \notin DOMAIN groups
    /\ nOpen = 0
    /\ \E t \in Threads : th[t].pc = "Get.Lock" /\ th[t].h = last.h

\* C19: Unregister of a name that is not registered in an existing group
\* fails with ResourceNotFound, and Unregister through a handle whose group is
\* gone fails with GroupNotFound; neither invokes a closer nor changes the
\* registry.
C19_UnregisterNotFound ==
    [][ (Returns("Unregister") /\ ~Live(last'.h, last'.name)) =>
          /\ IF last'.h \notin DOMAIN groups
             THEN /\ last'.err = NewErrGroupNotFound(last'.h)
                  /\ "ErrGroupNotFound" \in last'.err.is
             ELSE /\ last'.err = NewErrResourceNotFound(last'.h, last'.name)
                  /\ "ErrResourceNotFound" \in last'.err.is
          /\ UNCHANGED <<groups, closerNil, mu, th, nOpen, openerLog, closeCalls>>
      ]_vars

\* Unregister of a name that is not registered failed with ResourceNotFound
\* in a group that holds a ready resource, on which no closer was invoked
C19_Witness ==
    /\ last.op = "Unregister"
    /\ "ErrResourceNotFound" \in last.err.is
    /\ ~closerNil
    /\ last.h \in DOMAIN groups /\ ~Live(last.h, last.name)
    /\ \E n \in DOMAIN groups[last.h] :
          /\ groups[last.h][n].ready /\ groups[last.h][n].val.id = 1
    /\ nOpen = 1
    /\ \A k \in ResourceIds : closeCalls[k] = 0

\* C20: when Unregister removes a ready resource and the closer returns an
\* error, the record is removed all the same and Unregister returns no error:
\* the step taken with a failing closer is the step taken with a succeeding one.
C20_UnregisterSwallowsCloserError ==
    [][ (Returns("Unregister") /\ Ready(last'.h, last'.name) /\ ~closerNil) =>
          /\ CloserErr \in CloserOutcomes(last'.h, last'.name)
          /\ \A t \in Threads :
                Unregister(t, last'.h, last'.name, CloserErr) =>
                    /\ last'.err = NoErr
                    /\ ~Must(last').panicked
                    /\ groups' = [groups EXCEPT ![last'.h] = MapDelete(@, last'.name)]
                    /\ ClosedOnceMore({groups[last'.h][last'.name].val.id})
                    /\ Unregister(t, last'.h, last'.name, NoErr)
          /\ \E t \in Threads : Unregister(t, last'.h, last'.name, CloserErr)
      ]_vars

\* Unregister returned no error and removed the only record, whose value the
\* closer was invoked on; the closer's outcome leaves no trace in the state
C20_Witness ==
    /\ last.op = "Unregister" /\ last.err = NoErr
    /\ ~closerNil
    /\ last.h \in DOMAIN groups /\ ~Live(last.h, last.name)
    /\ LiveRecords(groups) = {}
    /\ nOpen = 1 /\ closeCalls[1] = 1

\* C21: Config(name) returns the configuration the record holds, which is the
\* one passed to the Register that created the record (a record's
\* configuration never changes while it is registered), ready or not, without
\* invoking the opener and without changing any state; it fails with
\* GroupNotFound when the group is absent and with ResourceNotFound when the
\* name is not registered.
C21_ConfigReturnsStored ==
    [][ /\ Returns("Config") =>
              /\ IF last'.h \notin DOMAIN groups
                 THEN /\ last'.err = NewErrGroupNotFound(last'.h)
                      /\ last'.cfg = None
                 ELSE IF ~Live(last'.h, last'.name)
                 THEN /\ last'.err = NewErrResourceNotFound(last'.h, last'.name)
                      /\ last'.cfg = None
                 ELSE /\ last'.err = NoErr
                      /\ last'.cfg = groups[last'.h][last'.name].cfg
              /\ UNCHANGED <<groups, closerNil, mu, th, nOpen, openerLog, closeCalls>>
        /\ (Returns("Register") /\ last'.flag) =>
              groups'[last'.h][last'.name].cfg = last'.cfg
        /\ \A p \in LiveRecords(groups) :
              p \in LiveRecords(groups') =>
                  groups'[p[1]][p[2]].cfg = groups[p[1]][p[2]].cfg
      ]_vars

\* Config returned the configuration of a record that is registered and not
\* ready; the opener has not been invoked
C21_Witness ==
    /\ last.op = "Config" /\ last.err = NoErr
    /\ Live(last.h, last.name) /\ ~Ready(last.h, last.name)
    /\ last.cfg = groups[last.h][last.name].cfg
    /\ last.cfg \in Cfgs
    /\ nOpen = 0

\* C22: Register never returns an error and returns isNew = true exactly on
\* the step that takes the name from absent to present, storing the
\* configuration of that call; a Register that follows another Register of the
\* same name returns false and leaves the stored configuration alone.  So of
\* the callers racing to register an absent name one gets true, and its
\* configuration is the one kept.
C22_RegisterOneWinner ==
    [][ Returns("Register") =>
          /\ last'.err = NoErr
          /\ last'.flag = ~Live(last'.h, last'.name)
          /\ <<last'.h, last'.name>> \in LiveRecords(groups')
          /\ last'.flag => groups'[last'.h][last'.name].cfg = last'.cfg
          /\ ~last'.flag =>
                groups'[last'.h][last'.name].cfg = groups[last'.h][last'.name].cfg
          /\ (last.op = "Register" /\ last.h = last'.h /\ last.name = last'.name) =>
                /\ ~last'.flag
                /\ groups' = groups
      ]_vars

\* with two callers, the second Register of a name came with another
\* configuration and got false; the record holds the first configuration and
\* nothing has been opened
C22_Witness ==
    /\ workload.threads = {"t1", "t2"}
    /\ last.op = "Register" /\ ~last.flag
    /\ Live(last.h, last.name)
    /\ groups[last.h][last.name] = NewConnection(groups[last.h][last.name].cfg)
    /\ groups[last.h][last.name].cfg # last.cfg
    /\ nOpen = 0

\* C23: Register through a handle whose group is not in the registry (removed
\* by Group.Close or Manager.Close) does not fail: it returns isNew = true and
\* puts the group back holding the new, unready record and nothing else.  A
\* name that is not registered becomes registered only by a Register of that
\* very name, as the unready record it creates: no earlier record comes back.
C23_RegisterRecreatesGroup ==
    [][ /\ (Returns("Register") /\ last'.h \notin DOMAIN groups) =>
              /\ last'.err = NoErr /\ last'.flag
              /\ groups' = MapPut(groups, last'.h,
                                  MapPut(EmptyMap, last'.name, NewConnection(last'.cfg)))
              /\ openerLog'[<<last'.h, last'.name>>] = ZeroLog
              /\ UNCHANGED <<closerNil, mu, th, nOpen, closeCalls>>
        /\ \A p \in LiveRecords(groups') \ LiveRecords(groups) :
              /\ Returns("Register")
              /\ p = <<last'.h, last'.name>>
              /\ groups'[p[1]][p[2]] = NewConnection(last'.cfg)
      ]_vars

\* the resource opened first has been handed to the closer and its group is
\* back in the registry with a single record, just registered and unready
C23_Witness ==
    /\ last.op = "Register" /\ last.flag
    /\ ~closerNil
    /\ nOpen = 1 /\ closeCalls[1] = 1
    /\ DOMAIN groups = {last.h}
    /\ groups[last.h] = MapPut(EmptyMap, last.name, NewConnection(last.cfg))

C26_ErrorsMatchSentinels ==
    [][ /\ (Returns("GroupClose") \/ Returns("ManagerClose")) =>
              \A i \in DOMAIN last'.list :
                  LET e == last'.list[i] IN
                  /\ "ErrCloseResourceFailed" \in e.is
                  /\ CloserErr.is \subseteq e.is
                  /\ Ready(e.group, e.name)
                  /\ Returns("GroupClose") => e.group = last'.h
                  /\ \A j \in DOMAIN last'.list :
                        (last'.list[j].group = e.group /\ last'.list[j].name = e.name)
                            => j = i
        /\ (Returns("Get") \/ Returns("Unregister")) =>
              /\ last'.h \notin DOMAIN groups =>
                    /\ "ErrGroupNotFound" \in last'.err.is
                    /\ last'.err.group = last'.h
              /\ (last'.h \in DOMAIN groups /\ ~Live(last'.h, last'.name)) =>
                    /\ "ErrResourceNotFound" \in last'.err.is
                    /\ last'.err.group = last'.h /\ last'.err.name = last'.name
        /\ (Returns("Group") /\ last'.name \notin DOMAIN groups) =>
              /\ "ErrGroupNotFound" \in last'.err.is
              /\ last'.err.group = last'.name
      ]_vars

\* Group.Close reported the failures of the closers of both resources of its
\* group, each matching the sentinel and the closer's error
C26_Witness ==
    /\ last.op = "GroupClose"
    /\ {last.list[i].name : i \in DOMAIN last.list} = {"a", "b"}
    /\ \A i \in DOMAIN last.list :
          /\ last.list[i].is = {"ErrCloseResourceFailed"} \cup CloserErr.is
          /\ last.list[i].group = last.h

\* the positions of the list whose element has key k
PositionsOf(k) == {i \in DOMAIN mapBy.list : mapBy.key[mapBy.list[i]] = k}

\* the greatest element of a non-empty set of positions
LastOf(S) == CHOOSE i \in S : \A j \in S : j <= i

\* C27: the map MapBy returns has one entry for each distinct key produced
\* from the list and no other; the value under a key is the value of the last
\* element of the list that produces the key; for an empty (or nil) list the
\* map is empty and it is not nil.
C27_MapByLastWins ==
    mapBy.pc = "done" =>
        /\ ~mapBy.ret.isNil
        /\ DOMAIN mapBy.ret.kv = {mapBy.key[mapBy.list[i]] : i \in DOMAIN mapBy.list}
        /\ \A k \in DOMAIN mapBy.ret.kv :
              mapBy.ret.kv[k] = mapBy.value[mapBy.list[LastOf(PositionsOf(k))]]
        /\ mapBy.list = <<>> => mapBy.ret.kv = EmptyMap

\* MapBy returned for a list in which the first and the last element produce
\* the same key and different values; the map holds the value of the last
C27_Witness ==
    /\ mapBy.pc = "done"
    /\ Len(mapBy.list) = MaxLen
    /\ mapBy.key[mapBy.list[1]] = mapBy.key[mapBy.list[MaxLen]]
    /\ mapBy.value[mapBy.list[1]] # mapBy.value[mapBy.list[MaxLen]]
    /\ mapBy.ret.kv[mapBy.key[mapBy.list[1]]] = mapBy.value[mapBy.list[MaxLen]]
    /\ Cardinality(DOMAIN mapBy.ret.kv) = 2

C29_GetAfterRemoval ==
    [][ \A t \in Threads :
          (th[t].pc = "Get.Lock" /\ th'[t] # th[t]
               /\ ~Live(th[t].h, th[t].name)) =>
              /\ Returns("Get")
              /\ last'.h = th[t].h /\ last'.name = th[t].name
              /\ last'.val = ZeroVal
              /\ last'.err = IF th[t].h \in DOMAIN groups
                             THEN NewErrResourceNotFound(th[t].h, th[t].name)
                             ELSE NewErrGroupNotFound(th[t].h)
              /\ th'[t] = Idle /\ mu' = "free"
              /\ UNCHANGED <<groups, closerNil, nOpen, openerLog, closeCalls>>
      ]_vars

\* a Get that found its record unready waits for the write lock, and the
\* other thread has just unregistered that record: the Get is about to resume
C29_Witness ==
    \E t \in Threads :
        /\ th[t].pc = "Get.Lock"
        /\ th[t].h \in DOMAIN groups /\ ~Live(th[t].h, th[t].name)
        /\ last.op = "Unregister" /\ last.err = NoErr
        /\ last.h = th[t].h /\ last.name = th[t].name
        /\ nOpen = 0

\* C30: whatever the interleaving of Get, Unregister, Group.Close and
\* Manager.Close, the closer has been invoked at most once on each value a
\* Get-path opener built, and never on the zero value; a value that has been
\* handed to the closer is no longer held by any record, and no two records
\* hold the same value.
C30_CloserAtMostOncePerValue ==
    /\ \A k \in ResourceIds : closeCalls[k] <= 1
    /\ closeCalls[0] = 0
    /\ \A k \in ResourceIds : closeCalls[k] = 1 => k <= nOpen
    /\ \A p \in LiveRecords(groups) :
          LET conn == groups[p[1]][p[2]] IN
          /\ conn.ready => closeCalls[conn.val.id] = 0
          /\ ~conn.ready => conn.val = ZeroVal
          /\ \A q \in LiveRecords(groups) :
                (conn.ready /\ groups[q[1]][q[2]].ready
                     /\ groups[q[1]][q[2]].val.id = conn.val.id) => q = p

\* with two callers, both values built so far have been handed to the
\* closer, once each; the call that returned last is a Group.Close that
\* reported no failure
C30_Witness ==
    /\ workload.threads = {"t1", "t2"}
    /\ ~closerNil
    /\ last.op = "GroupClose" /\ last.list = <<>>
    /\ nOpen = 2
    /\ closeCalls[1] = 1 /\ closeCalls[2] = 1

\* C31: for every record, from its Register until its removal, the ready flag
\* changes at most once, from false to true, and only on the return of a Get
\* whose opener call succeeded, which stores the value that call built; no
\* operation sets ready back to false or replaces the configuration or the
\* cached value of a ready record.
C31_ReadyOnlyRises ==
    [][ \A p \in LiveRecords(groups) \cap LiveRecords(groups') :
          LET conn == groups[p[1]][p[2]]
              new  == groups'[p[1]][p[2]]
          IN  /\ conn.ready => new = conn
              /\ (~conn.ready /\ new # conn) =>
                    /\ new.ready
                    /\ Returns("Get") /\ last'.err = NoErr
                    /\ ~Must(last').panicked
                    /\ <<last'.h, last'.name>> = p
                    /\ \E t \in Threads :
                          /\ th[t].pc = "Get.Opener" /\ th'[t].pc = "idle"
                          /\ <<th[t].h, th[t].name>> = p
                    /\ new = [conn EXCEPT !.ready = TRUE,
                                          !.val = NewResource(nOpen, conn.cfg)]
                    /\ last'.val = new.val
      ]_vars

\* a Get made a record ready with the opener's second invocation for it, the
\* first one having failed and left it unready
C31_Witness ==
    /\ last.op = "Get" /\ last.err = NoErr
    /\ Ready(last.h, last.name)
    /\ groups[last.h][last.name].val.id = 2
    /\ openerLog[<<last.h, last.name>>] = [calls |-> 2, fails |-> 1]

\* the value is one a successful opener call built from the configuration
\* stored in conn: an allocated resource, not the zero value
BuiltFor(val, conn) ==
    /\ val # ZeroVal
    /\ val.id \in 1..nOpen
    /\ val.cfg = conn.cfg

\* C32: the value field of an unready record is never observed.  Every value
\* returned by a successful Get is the value of the record of that name, ready
\* at the return, and every value passed to the closer is the value of a
\* record that was ready and is removed in the same step; each such value was
\* built by an opener call from the configuration stored in that very record
\* (never the zero value, never the value held under another name).  An
\* unready record holds the zero value, which no step hands out.
C32_UnreadyValueNeverObserved ==
    [][ /\ (Returns("Get") /\ last'.err = NoErr) =>
              /\ <<last'.h, last'.name>> \in LiveRecords(groups')
              /\ LET conn == groups'[last'.h][last'.name] IN
                 /\ conn.ready
                 /\ last'.val = conn.val
                 /\ last'.val.id \in 1..nOpen'
                 /\ last'.val.cfg = conn.cfg
                 /\ last'.val # ZeroVal
                 /\ Must(last').val = conn.val
              /\ \A q \in LiveRecords(groups') \ {<<last'.h, last'.name>>} :
                    groups'[q[1]][q[2]].val # last'.val
        /\ \A k \in ResourceIds :
              closeCalls'[k] # closeCalls[k] =>
                  /\ k # 0
                  /\ \E p \in LiveRecords(groups) \ LiveRecords(groups') :
                        /\ groups[p[1]][p[2]].ready
                        /\ groups[p[1]][p[2]].val.id = k
                        /\ BuiltFor(groups[p[1]][p[2]].val, groups[p[1]][p[2]])
        /\ \A p \in LiveRecords(groups) :
              LET conn == groups[p[1]][p[2]] IN
              IF conn.ready THEN BuiltFor(conn.val, conn) ELSE conn.val = ZeroVal
      ]_vars

\* two names registered with different configurations are both ready, each
\* holding the value built from its own configuration, and a Get of the one
\* opened first has returned that value
C32_Witness ==
    /\ Ready("g1", "a") /\ Ready("g1", "b")
    /\ groups["g1"]["a"].cfg # groups["g1"]["b"].cfg
    /\ \A n \in {"a", "b"} : groups["g1"][n].val.cfg = groups["g1"][n].cfg
    /\ last.op = "Get" /\ last.err = NoErr
    /\ last.val.id = 1 /\ nOpen = 2
    /\ last.val = groups["g1"][last.name].val

\* C33: provided every opener and closer invocation returns, the registry
\* never deadlocks: under fair scheduling every call in progress (a Get
\* waiting for the write lock while other calls go on, a Get or a Ping inside
\* the opener) eventually returns; the write lock is held only by a Get that
\* is inside its opener call, so it is free whenever no call is in progress.
C33_NoDeadlock ==
    /\ \A t \in Threads : (th[t].pc # "idle") ~> (th[t].pc = "idle")
    /\ [](\A t \in Threads : (mu = t) <=> (th[t].pc = "Get.Opener"))
    /\ []((\A t \in Threads : th[t].pc = "idle") => mu = "free")

\* a Get waits for the write lock while the Get of the other thread, for the
\* same record, holds it inside the opener, and the opener may be invoked again
C33_Witness ==
    \E t, u \in Threads :
        /\ th[t].pc = "Get.Lock"
        /\ th[u].pc = "Get.Opener" /\ mu = u
        /\ <<th[u].h, th[u].name>> = <<th[t].h, th[t].name>>
        /\ nOpen < MaxOpens

\* the call that returned last removed the record h/name, if there was one
JustRemoved(h, name) ==
    \/ last.op = "Unregister" /\ last.err = NoErr /\ last.h = h /\ last.name = name
    \/ last.op = "GroupClose" /\ last.h = h
    \/ last.op = "ManagerClose"

PingLookupFails ==
    /\ Returns("Ping")
    /\ \A t \in Threads : th[t].pc # "Ping.Opener" \/ th'[t] = th[t]

\* C35: a Group handle is the group's name and nothing else: Manager.Group
\* returns the name it was asked for, so two handles of one name are the same
\* handle, and every call through a handle reads and changes the group which
\* that name denotes in the registry at the time of the call.  When no group
\* of that name exists, Get, Config, Unregister and Ping fail with
\* GroupNotFound and change nothing; when one exists (the group the handle
\* was obtained from, or one added again under that name since) none of them
\* fails with GroupNotFound: Config and List answer from that group, Register
\* adds to it and Unregister removes from it.
C35_HandleIsName ==
    [][ /\ (Returns("Group") /\ last'.err = NoErr) =>
              /\ last'.h = last'.name
              /\ last'.h \in DOMAIN groups
        /\ ((Returns("Get") \/ Returns("Config") \/ Returns("Unregister")
                \/ PingLookupFails) /\ last'.h \notin DOMAIN groups) =>
              /\ last'.err = NewErrGroupNotFound(last'.h)
              /\ UNCHANGED <<groups, closerNil, mu, nOpen, openerLog, closeCalls>>
        /\ ((Returns("Get") \/ Returns("Config") \/ Returns("Unregister")
                \/ PingLookupFails) /\ last'.h \in DOMAIN groups) =>
              "ErrGroupNotFound" \notin last'.err.is
        /\ (Returns("Config") /\ Live(last'.h, last'.name)) =>
              last'.cfg = groups[last'.h][last'.name].cfg
        /\ (Returns("Get") /\ Ready(last'.h, last'.name)) =>
              last'.val = groups[last'.h][last'.name].val
        /\ Returns("List") =>
              {last'.names[i] : i \in DOMAIN last'.names} = NamesOf(last'.h)
        /\ Returns("Register") =>
              /\ <<last'.h, last'.name>> \in LiveRecords(groups')
              /\ \A g \in DOMAIN groups \ {last'.h} : groups'[g] = groups[g]
        /\ (Returns("Unregister") /\ Live(last'.h, last'.name)) =>
              /\ groups' = [groups EXCEPT ![last'.h] = MapDelete(@, last'.name)]
              /\ last'.err = NoErr
      ]_vars

\* with g1 the only group name in use, the resource opened in g1 has been
\* closed and the registry is empty; an Unregister through the handle of g1
\* has failed with GroupNotFound
C35_Witness ==
    /\ workload.groups = {"g1"}
    /\ ~closerNil /\ nOpen = 1 /\ closeCalls[1] = 1
    /\ groups = EmptyMap
    /\ last.op = "Unregister" /\ last.h = "g1"
    /\ last.err = NewErrGroupNotFound("g1")

C38_NoClosedValueInRegistry ==
    [][ /\ \A k \in ResourceIds :
             closeCalls'[k] > closeCalls[k] =>
                 /\ \E t \in Threads : th[t].pc = "idle" /\ mu = "free" /\ mu' = "free"
                 /\ \E p \in LiveRecords(groups) :
                       /\ groups[p[1]][p[2]].ready
                       /\ groups[p[1]][p[2]].val.id = k
                       /\ p \notin LiveRecords(groups')
                 /\ Returns("Unregister") \/ Returns("GroupClose")
                       \/ Returns("ManagerClose")
        /\ \A p \in LiveRecords(groups') :
             groups'[p[1]][p[2]].ready =>
                 closeCalls'[groups'[p[1]][p[2]].val.id] = 0
        /\ (Returns("Get") /\ last'.err = NoErr) =>
              /\ closeCalls[last'.val.id] = 0
              /\ closeCalls' = closeCalls
      ]_vars

\* a Get waits for the write lock while its group, which held the one value
\* built so far, has been closed and that value handed to the closer
C38_Witness ==
    \E t \in Threads :
        /\ th[t].pc = "Get.Lock"
        /\ th[t].h \notin DOMAIN groups
        /\ last.op = "GroupClose" /\ last.h = th[t].h
        /\ ~closerNil /\ nOpen = 1 /\ closeCalls[1] = 1

\* the live ready records that hold the value val
HoldersOf(gs, val) ==
    {p \in LiveRecords(gs) : gs[p[1]][p[2]].ready /\ gs[p[1]][p[2]].val = val}

\* C39: with a closer, no opened resource is leaked.  The value a successful
\* Get-path opener call builds is stored, in the step that returns it, as the
\* value of exactly one live ready record; from then on every step either
\* leaves that record and its value in place or removes the record (by
\* Unregister, Group.Close or Manager.Close) and invokes the closer once on
\* the value.  So each such value is held by exactly one ready record or has
\* been passed to the closer, and no ready record is dropped unclosed.
C39_NoLeak ==
    [][ ~closerNil =>
          /\ \A t \in Threads :
                (th[t].pc = "Get.Opener" /\ th'[t] # th[t] /\ last'.err = NoErr) =>
                    /\ HoldersOf(groups', last'.val) = {<<th[t].h, th[t].name>>}
                    /\ HoldersOf(groups, last'.val) = {}
                    /\ closeCalls'[last'.val.id] = 0
          /\ \A p \in LiveRecords(groups) :
                LET conn == groups[p[1]][p[2]] IN
                conn.ready =>
                    \/ /\ HoldersOf(groups', conn.val) = {p}
                       /\ closeCalls'[conn.val.id] = 0
                    \/ /\ HoldersOf(groups', conn.val) = {}
                       /\ p \notin LiveRecords(groups')
                       /\ closeCalls[conn.val.id] = 0
                       /\ closeCalls'[conn.val.id] = 1
                       /\ Returns("Unregister") \/ Returns("GroupClose")
                             \/ Returns("ManagerClose")
      ]_vars

\* with a closer, an Unregister has returned; of the two values built, the
\* first has been passed to the closer and the second is held by the one
\* ready record there is
C39_Witness ==
    /\ ~closerNil /\ nOpen = 2
    /\ last.op = "Unregister" /\ last.err = NoErr
    /\ closeCalls[1] = 1 /\ closeCalls[2] = 0
    /\ \E p \in LiveRecords(groups) :
          /\ groups[p[1]][p[2]].val.id = 2
          /\ HoldersOf(groups, groups[p[1]][p[2]].val) = {p}

\* C40: a Get that returns an error leaves the registry as it was.  The
\* error is GroupNotFound, ResourceNotFound or the opener's own error, the
\* value returned is the zero value, and the returning step changes neither
\* the groups nor any record (configuration, ready flag, value) and invokes
\* no closer; the earlier steps of the same call (the look under the read
\* lock, taking the write lock and invoking the opener) change none either.
C40_FailedGetChangesNothing ==
    [][ /\ (Returns("Get") /\ last'.err # NoErr) =>
              /\ \/ last'.err = NewErrGroupNotFound(last'.h)
                 \/ last'.err = NewErrResourceNotFound(last'.h, last'.name)
                 \/ last'.err \in OpenerErrs
              /\ last'.val = ZeroVal
              /\ groups' = groups
              /\ closeCalls' = closeCalls /\ closerNil' = closerNil
              /\ nOpen' = nOpen
              /\ mu' = "free"
              /\ last'.err \in OpenerErrs =>
                    /\ Live(last'.h, last'.name) /\ ~Ready(last'.h, last'.name)
                    /\ \E t \in Threads : th[t].pc = "Get.Opener" /\ th'[t].pc = "idle"
        /\ \A t \in Threads :
             (th'[t] # th[t] /\ th'[t].pc \in {"Get.Lock", "Get.Opener"}) =>
                 /\ groups' = groups
                 /\ closeCalls' = closeCalls
      ]_vars

\* a Get failed with the opener's error on a record that is still registered
\* and unready, next to a record that is ready with the value built first
C40_Witness ==
    /\ last.op = "Get" /\ last.err \in OpenerErrs /\ last.val = ZeroVal
    /\ Live(last.h, last.name)
    /\ groups[last.h][last.name] = NewConnection(groups[last.h][last.name].cfg)
    /\ openerLog[<<last.h, last.name>>] = [calls |-> 1, fails |-> 1]
    /\ nOpen = 2
    /\ \E n \in DOMAIN groups[last.h] :
          groups[last.h][n].ready /\ groups[last.h][n].val.id = 1

====
